---- MODULE Spec2Model ----
(***************************************************************************)
(* A model of the go-dbus client library's connection dispatcher and of    *)
(* its signal-watch / name-watch layer.                                    *)
(*                                                                         *)
(* The connection (Connection, _MessageReceiver, _RunLoop,                 *)
(* _MessageDispatch, Send, SendWithReply, Close) is one socket shared by   *)
(* user goroutines, one receive goroutine and one run-loop goroutine.      *)
(* Every blocking point of the Go code (a channel operation, a mutex       *)
(* acquisition, a socket read or write) is one step of the model; the      *)
(* short critical sections under handlerMutex do no blocking call and are  *)
(* one step each.                                                          *)
(***************************************************************************)
EXTENDS Integers, Sequences, FiniteSets, TLC

\* ------------------------------------------------------------------ bounds

\* Serials handed out over the run (calls, sends and replies written).
MaxSerials == 2
\* Messages the receive goroutine reads from the socket over the run.
MaxRead == 2
\* Cancel calls user code makes on the watches over the run.
MaxCancels == 2

\* lastSerial is a uint32: it is kept as two 16-bit limbs <<high, low>>, so
\* that the arithmetic has the width of the Go type.
Limb == 65536

\* ------------------------------------------------------------- goroutines

Users == {"u1", "u2"}
Loop == "loop"
\* The goroutines of a BusName: the one RequestName starts to run
\* name.request(), and the two request() starts to forward the NameLost and
\* NameAcquired signals.
BusNameGoroutines == {"rq", "lg", "ag"}
Goroutines == Users \cup {Loop} \cup BusNameGoroutines

\* The elements of a sequence, as a set.
Range(seq) == {seq[i] : i \in DOMAIN seq}

\* The uint32 with value n, for n < Limb.
U32(n) == <<0, n>>

\* a < b on uint32 values.
SerialLess(a, b) == a[1] < b[1] \/ (a[1] = b[1] /\ a[2] < b[2])

\* A message that has not been given a serial carries 0.
NoSerial == U32(0)

VARIABLES
    lastSerial,         \* Connection.lastSerial
    pc,                 \* [Goroutines -> label]: where each goroutine stands
    ret,                \* [Goroutines -> label]: where its current call returns to
    serialOf,           \* [Goroutines -> serial of the message it is sending]
    outMsg,             \* [Goroutines -> the message it is sending]
    methodCallReplies,  \* Connection.methodCallReplies: serial -> waiting goroutine
    replyChan,          \* [Goroutines -> contents of its reply channel (capacity 1)]
    reply,              \* [Goroutines -> the message SendWithReply returned]
    result,             \* [Goroutines -> outcome of its last call]
    late,               \* goroutines whose current call began after the receiver ended
    wire,               \* what has been written to the socket, one entry per Write
    connClosed,         \* Close has shut the socket
    rx,                 \* the messages read from the socket, in read order
    recvPc,             \* receive goroutine: "read", "send" or "done"
    msgChanClosed,      \* close(msgChan) has happened
    loopMsg,            \* index in rx of the message under dispatch (0: none)
    loopMatches,        \* watches still to be served for the signal under dispatch
    messageFilters,     \* Connection.messageFilters
    objectPathHandlers, \* Connection.objectPathHandlers (the registered paths)
    handled,            \* rx indices handed to object path handlers, in order
    signalMatchRules,   \* Connection.signalMatchRules: watches in the set, in order
    delivered,          \* [watch -> rx indices its consumer received, in order]
    issued,             \* serials in the order nextSerial handed them out
    mutex,              \* [lock -> the goroutine holding it, or "free"]
    swInternal,         \* SignalWatch.signalWatch of watch sw is not nil
    cancelled,          \* signalWatch.cancelled (sw, ni) and NameWatch.cancelled (nw)
    chanClosed,         \* [channel of a watch -> close() has been called on it]
    nameInfo,           \* Connection.nameInfo has an entry for the watched name
    watches,            \* nameInfo.watches of that entry: name watches, in order
    currentOwner,       \* nameInfo.currentOwner of that entry
    nwChan,             \* [NameWatch -> contents of its channel C (capacity 1)]
    ownerCbs,           \* handleOwnerChange: the name watches still to be called
    panics,             \* run-time panics raised so far
    cancelRets,         \* [watch -> what its Cancel calls returned, in order]
    rmCalls,            \* [signal watch -> number of RemoveMatch calls made for it]
    nwRemoved,          \* [name watch -> times removeNameWatch took it out]
    lateSend,           \* channels sent on after their Cancel had returned
    raced,              \* a signal matching sw was taken while a Cancel of sw ran
    callArg,            \* [Goroutines -> the arguments of the API call it is in]
    filterLog,          \* the calls of message filters made so far, in order
    seen,               \* [name watch -> the owners its callback was called with]
    busName,            \* the BusName: its fields C, cancelled, needsRelease, ...
    busWatch,           \* [lw, aw -> the SignalWatch of the BusName: its fields]
    frame,              \* [goroutine -> arguments and locals of its BusName call]
    nameLog,            \* what was sent on name.C and what Release returned
    daemon,             \* the bus daemon: who owns the name, what it has sent
    handshake,          \* Connect and _Authenticate: lines read, err, what they returned
    found,              \* the last FindMatches call on the set as it is: message, result
    lookup,             \* the last handlerForPath call on the table as it is
    codec,              \* the last encoder.Append and decoder.Decode of its output
    removed,            \* the last Remove call on the set: the watch, what it returned
    stream              \* a readMessage call: the frame sent, bytes taken, where it is

\* Everything a step of the connection layer leaves alone is named through
\* these tuples.
serialVars == <<lastSerial, issued>>
callVars   == <<serialOf, outMsg, reply, result, late>>
slotVars   == <<methodCallReplies, replyChan>>
sockVars   == <<wire, connClosed>>
recvVars   == <<rx, recvPc, msgChanClosed>>
loopVars   == <<loopMsg, loopMatches>>
tableVars  == <<messageFilters, objectPathHandlers, signalMatchRules>>
sinkVars   == <<handled, delivered>>

lockVars   == <<mutex>>
watchState == <<swInternal, cancelled, chanClosed>>
nameVars   == <<nameInfo, watches, currentOwner, nwChan, ownerCbs>>
countVars  == <<rmCalls, nwRemoved>>
raceVars   == <<lateSend, raced>>
ghostVars  == <<panics, cancelRets, countVars, raceVars>>
watchVars  == <<lockVars, watchState, nameVars, ghostVars>>


\* What the layers above the connection and the watches add.
busVars == <<busName, busWatch, frame, nameLog, daemon>>
probeVars == <<lookup, codec, removed, stream>>
stageVars == <<handshake, found, probeVars>>
extVars == <<callArg, filterLog, seen, busVars, stageVars>>

vars == <<pc, ret, serialVars, callVars, slotVars, sockVars, recvVars,
          loopVars, tableVars, sinkVars, watchVars, extVars>>

\* --------------------------------------------------------------- messages

BUS_DAEMON_NAME == "org.freedesktop.DBus"
BUS_DAEMON_PATH == "/org/freedesktop/DBus"
BUS_DAEMON_IFACE == "org.freedesktop.DBus"
PeerIface == "org.freedesktop.DBus.Peer"
UnknownObject == "org.freedesktop.DBus.Error.UnknownObject"

\* A peer on the bus that sends us signals and method calls.
PeerName == ":1.5"

\* A message: its header fields and Arg, the one body argument the model
\* looks at (the new owner in a NameOwnerChanged signal, the rule in a
\* RemoveMatch call).
Msg(type, serial, replySerial, path, iface, member, sender, dest, errorName) ==
    [Type |-> type, serial |-> serial, replySerial |-> replySerial,
     Path |-> path, Iface |-> iface, Member |-> member, Sender |-> sender,
     Dest |-> dest, ErrorName |-> errorName, Arg |-> ""]

NoMsg == Msg("invalid", NoSerial, NoSerial, "", "", "", "", "", "")

NewMethodCallMessage(dest, path, iface, member) ==
    Msg("method_call", NoSerial, NoSerial, path, iface, member, "", dest, "")

NewSignalMessage(path, iface, member) ==
    Msg("signal", NoSerial, NoSerial, path, iface, member, "", "", "")

NewMethodReturnMessage(methodCall) ==
    Msg("method_return", NoSerial, methodCall.serial, "", "", "", "", methodCall.Sender, "")

\* An error message that does not say which call it answers.
UncorrelatedError(methodCall, errorName) ==
    Msg("error", NoSerial, NoSerial, "", "", "", "", methodCall.Sender, errorName)

NewErrorMessage(methodCall, errorName) ==
    Msg("error", NoSerial, methodCall.serial, "", "", "", "", methodCall.Sender, errorName)

setSerial(m, serial) == [m EXCEPT !.serial = serial]

\* ------------------------------------------------------------ signal watches

\* The SignalWatch objects: w1 and w2 match on path, interface and member;
\* sw also names the unique name of a peer as sender, so it has a name watch.
Watches == {"w1", "w2", "sw"}

\* The signalWatch a nameInfo keeps on the daemon's NameOwnerChanged signal.
NameInfoWatch == "ni"

\* The NameWatch returned by WatchName; its entry in nameInfo.watches goes by
\* the same name, and the entry of SignalWatch sw goes by "sw".
NameWatchId == "nw"

\* The NameWatch objects: nw, and the one a second WatchName call for the
\* same name returns.
NameWatches == {NameWatchId, "nw2"}

\* The entries nameInfo.watches can hold: each has a callback.
NameCallbacks == NameWatches \cup {"sw"}

\* nameInfo.currentOwner before the owner is known ("\x00" in the code).
Unresolved == "unresolved"

\* The SignalWatch objects of a BusName: name.lostWatch and
\* name.acquiredWatch.
BusWatches == {"lw", "aw"}

\* The match rule each watch was registered with.
Rule(w) ==
    CASE w = "w1" -> [Type |-> "signal", Sender |-> "", Path |-> "/obj",
                      Interface |-> "com.example", Member |-> "Changed"]
      [] w = "w2" -> [Type |-> "signal", Sender |-> "", Path |-> "/obj",
                      Interface |-> "com.example", Member |-> ""]
      [] w = "sw" -> [Type |-> "signal", Sender |-> PeerName, Path |-> "/obj",
                      Interface |-> "com.example", Member |-> "Changed"]
      [] w = "ni" -> [Type |-> "signal", Sender |-> BUS_DAEMON_NAME,
                      Path |-> BUS_DAEMON_PATH, Interface |-> BUS_DAEMON_IFACE,
                      Member |-> "NameOwnerChanged"]
      [] w = "lw" -> [Type |-> "signal", Sender |-> BUS_DAEMON_NAME,
                      Path |-> BUS_DAEMON_PATH, Interface |-> BUS_DAEMON_IFACE,
                      Member |-> "NameLost"]
      [] w = "aw" -> [Type |-> "signal", Sender |-> BUS_DAEMON_NAME,
                      Path |-> BUS_DAEMON_PATH, Interface |-> BUS_DAEMON_IFACE,
                      Member |-> "NameAcquired"]
      [] w = "wp" -> [Type |-> "signal", Sender |-> "", Path |-> "",
                      Interface |-> "com.example", Member |-> "Changed"]
      [] w = "wi" -> [Type |-> "signal", Sender |-> "", Path |-> "/obj",
                      Interface |-> "", Member |-> "Changed"]
      [] w = "wx" -> [Type |-> "invalid", Sender |-> "", Path |-> "",
                      Interface |-> "", Member |-> ""]

\* MatchRule._Match
\* A rule that every message matches.
MatchAll(r, msg) == TRUE

Match(r, msg) ==
    /\ ~(r.Type # "invalid" /\ r.Type # msg.Type)
    /\ ~(r.Sender # "" /\ r.Sender # msg.Sender)
    /\ ~(r.Path # "" /\ r.Path # msg.Path)
    /\ ~(r.Interface # "" /\ r.Interface # msg.Iface)
    /\ ~(r.Member # "" /\ r.Member # msg.Member)

KeyOf(w) == <<Rule(w).Path, Rule(w).Interface, Rule(w).Member>>

RECURSIVE Concat(_)
Concat(ss) == IF ss = <<>> THEN <<>> ELSE Head(ss) \o Concat(Tail(ss))

Bucket(set, key) == IF key \in DOMAIN set THEN set[key] ELSE <<>>

\* signalWatchSet.Add: append the watch to the bucket of its rule's key.
SetAdd(set, w) ==
    [k \in DOMAIN set \cup {KeyOf(w)} |->
        IF k = KeyOf(w) THEN Append(Bucket(set, k), w) ELSE set[k]]

\* The watches in the set.
InSet(set) == UNION {{set[k][i] : i \in DOMAIN set[k]} : k \in DOMAIN set}

\* signalWatchSet.Remove: what it returns.  false when there is no bucket
\* for the path, interface and member of the watch's rule or when no watch
\* of the bucket is the given one, true when one is.
SetRemoveOk(set, w) ==
    /\ KeyOf(w) \in DOMAIN set
    /\ \E i \in DOMAIN set[KeyOf(w)] : set[KeyOf(w)][i] = w

\* A Remove that leaves the set as it is.
KeepWatch(set, w) == set

\* signalWatchSet.Remove: in the bucket of the rule's key, the last watch is
\* moved to the place of the removed one and the bucket is cut by one.
SetRemove(set, w) ==
    LET b == Bucket(set, KeyOf(w))
        at == {i \in DOMAIN b : b[i] = w}
    IN IF at = {} THEN set
       ELSE LET i == CHOOSE n \in at : \A o \in at : n <= o
                moved == [b EXCEPT ![i] = b[Len(b)]]
            IN [set EXCEPT ![KeyOf(w)] = SubSeq(moved, 1, Len(b) - 1)]

\* signalWatchSet.FindMatches: the buckets for "" and for the message's own
\* path, interface and member, in that order, filtered by the rule.
FindMatches(set, msg) ==
    LET pathKeys == <<"">> \o (IF msg.Path # "" THEN <<msg.Path>> ELSE <<>>)
        ifaceKeys == <<"">> \o (IF msg.Iface # "" THEN <<msg.Iface>> ELSE <<>>)
        memberKeys == <<"">> \o (IF msg.Member # "" THEN <<msg.Member>> ELSE <<>>)
        hit(w) == Match(Rule(w), msg)
    IN Concat([p \in DOMAIN pathKeys |->
         Concat([i \in DOMAIN ifaceKeys |->
           Concat([m \in DOMAIN memberKeys |->
             SelectSeq(Bucket(set, <<pathKeys[p], ifaceKeys[i], memberKeys[m]>>), hit)])])])

\* The mutexes: SignalWatch.lock of sw, the cancelLock of the signalWatch of
\* sw, of the nameInfo's signalWatch and of the NameWatch,
\* Connection.nameInfoMutex and nameInfo.lock.
Locks == {"watch.lock", "sw.cancelLock", "ni.cancelLock", "nw.cancelLock",
          "nameInfoMutex", "info.lock", "name.lock", "lw.lock", "aw.lock",
          "lw.cancelLock", "aw.cancelLock"}

\* ------------------------------------------------------------------ serials

\* A counter that stops at its first value: every message after the first
\* gets the serial of the one before it.
StuckSerial(last) == IF last = U32(0) THEN U32(1) ELSE last

\* A counter that counts down from the top of its low limb.
DescendingSerial(last) ==
    IF last[2] <= 1 THEN <<last[1], Limb - 1>> ELSE <<last[1], last[2] - 1>>

\* Connection.nextSerial: atomic.AddUint32(&p.lastSerial, 1)
nextSerial(last) ==
    IF last[2] + 1 < Limb THEN <<last[1], last[2] + 1>>
    ELSE IF last[1] + 1 < Limb THEN <<last[1] + 1, 0>>
    ELSE <<0, 0>>

\* ------------------------------------------------------- calls and returns

\* g calls a procedure: it goes to `entry` and will come back to `cont`.
Invoke(g, entry, cont) ==
    /\ pc' = [pc EXCEPT ![g] = entry]
    /\ ret' = [ret EXCEPT ![g] = <<cont>> \o @]

\* g returns from the procedure it is in.
Return(g) ==
    /\ pc' = [pc EXCEPT ![g] = Head(ret[g])]
    /\ ret' = [ret EXCEPT ![g] = Tail(@)]

\* g returns from Send, SendWithReply or WriteTo: the message it was sending
\* goes out of scope.
ReturnFromSend(g) ==
    /\ Return(g)
    /\ outMsg' = [outMsg EXCEPT ![g] = NoMsg]

\* One entry of the socket's outbound stream: one Write call.
Chunk(g, part) ==
    [by |-> g, serial |-> serialOf[g], part |-> part, type |-> outMsg[g].Type,
     replySerial |-> outMsg[g].replySerial, dest |-> outMsg[g].Dest,
     errorName |-> outMsg[g].ErrorName, member |-> outMsg[g].Member]

\* net.Conn.Write: the bytes reach the socket unless it has been shut.
ConnWrite(w, c) == IF connClosed THEN w ELSE Append(w, c)

\* ------------------------------------------------------------- user calls

\* A user goroutine starts sending a signal; `entry` is where it goes.
StartSend(g, entry) ==
    /\ pc[g] = "idle"
    /\ Len(issued) < MaxSerials
    /\ outMsg' = [outMsg EXCEPT ![g] = NewSignalMessage("/obj", "com.example", "Changed")]
    /\ result' = [result EXCEPT ![g] = "none"]
    /\ late' = IF recvPc = "done" THEN late \cup {g} ELSE late \ {g}
    /\ Invoke(g, entry, "idle")

\* A user goroutine calls Connection.Send: the message is marshalled into one
\* buffer and written with one conn.Write.
UserSend(g) ==
    /\ StartSend(g, "send_serial")
    /\ UNCHANGED <<extVars, serialVars, serialOf, reply, slotVars, sockVars, recvVars,
                   loopVars, tableVars, watchVars, sinkVars>>

\* A user goroutine sends with Message.WriteTo on the connection's socket
\* after giving the message its serial.
UserWriteTo(g) ==
    /\ StartSend(g, "wt_serial")
    /\ UNCHANGED <<extVars, serialVars, serialOf, reply, slotVars, sockVars, recvVars,
                   loopVars, tableVars, watchVars, sinkVars>>

\* A user goroutine calls Connection.SendWithReply with a method call.
UserCall(g) ==
    /\ pc[g] = "idle"
    /\ Len(issued) < MaxSerials
    /\ outMsg' = [outMsg EXCEPT ![g] =
                    NewMethodCallMessage(PeerName, "/obj", "com.example", "Do")]
    /\ result' = [result EXCEPT ![g] = "none"]
    /\ late' = IF recvPc = "done" THEN late \cup {g} ELSE late \ {g}
    /\ Invoke(g, "swr_serial", "idle")
    /\ UNCHANGED <<extVars, serialVars, serialOf, reply, slotVars, sockVars, recvVars,
                   loopVars, tableVars, watchVars, sinkVars>>

\* Connection.Close: p.conn.Close()
Close(g) ==
    /\ pc[g] = "idle"
    /\ ~connClosed
    /\ connClosed' = TRUE
    /\ UNCHANGED <<extVars, pc, ret, serialVars, callVars, slotVars, wire, recvVars,
                   loopVars, tableVars, watchVars, sinkVars>>

\* ------------------------------------------------------------------- Send

\* Send: msg.setSerial(p.nextSerial())
Send_nextSerial(g) ==
    /\ pc[g] \in {"send_serial", "wt_serial"}
    /\ lastSerial' = nextSerial(lastSerial)
    /\ issued' = Append(issued, lastSerial')
    /\ serialOf' = [serialOf EXCEPT ![g] = lastSerial']
    /\ outMsg' = [outMsg EXCEPT ![g] = setSerial(@, lastSerial')]
    /\ pc' = [pc EXCEPT ![g] = IF pc[g] = "wt_serial" THEN "wt_header" ELSE "send_write"]
    /\ UNCHANGED <<extVars, ret, reply, result, late, slotVars, sockVars, recvVars,
                   loopVars, tableVars, watchVars, sinkVars>>

\* Send: buff, err := msg._Marshal(); p.conn.Write(buff); return nil
Send_Write(g) ==
    /\ pc[g] = "send_write"
    /\ wire' = ConnWrite(wire, Chunk(g, "frame"))
    /\ result' = [result EXCEPT ![g] = "ok"]
    /\ ReturnFromSend(g)
    /\ UNCHANGED <<extVars, serialVars, serialOf, reply, late, slotVars,
                   connClosed, recvVars, loopVars, tableVars, watchVars, sinkVars>>

\* Send: _Marshal fails on a user's arguments; the error is returned and
\* nothing is written.
Send_MarshalError(g) ==
    /\ pc[g] = "send_write"
    /\ g \in Users
    /\ result' = [result EXCEPT ![g] = "marshal error"]
    /\ ReturnFromSend(g)
    /\ UNCHANGED <<extVars, serialVars, serialOf, reply, late, slotVars,
                   sockVars, recvVars, loopVars, tableVars, watchVars, sinkVars>>

\* Message.WriteTo: m, err := w.Write(header.data.Bytes())
WriteTo_header(g) ==
    /\ pc[g] = "wt_header"
    /\ IF connClosed
         THEN /\ result' = [result EXCEPT ![g] = "write error"]
              /\ ReturnFromSend(g)
              /\ UNCHANGED wire
         ELSE /\ wire' = Append(wire, Chunk(g, "header"))
              /\ pc' = [pc EXCEPT ![g] = "wt_body"]
              /\ UNCHANGED <<ret, result, outMsg>>
    /\ UNCHANGED <<extVars, serialVars, serialOf, reply, late, slotVars,
                   connClosed, recvVars, loopVars, tableVars, watchVars, sinkVars>>

\* Message.WriteTo: n, err := w.Write(p.body)
WriteTo_body(g) ==
    /\ pc[g] = "wt_body"
    /\ IF connClosed
         THEN /\ result' = [result EXCEPT ![g] = "write error"]
              /\ UNCHANGED wire
         ELSE /\ wire' = Append(wire, Chunk(g, "body"))
              /\ result' = [result EXCEPT ![g] = "ok"]
    /\ ReturnFromSend(g)
    /\ UNCHANGED <<extVars, serialVars, serialOf, reply, late, slotVars,
                   connClosed, recvVars, loopVars, tableVars, watchVars, sinkVars>>

\* ---------------------------------------------------------- SendWithReply

\* SendWithReply: serial := p.nextSerial(); msg.setSerial(serial)
SWR_nextSerial(g) ==
    /\ pc[g] = "swr_serial"
    /\ lastSerial' = nextSerial(lastSerial)
    /\ issued' = Append(issued, lastSerial')
    /\ serialOf' = [serialOf EXCEPT ![g] = lastSerial']
    /\ outMsg' = [outMsg EXCEPT ![g] = setSerial(@, lastSerial')]
    /\ pc' = [pc EXCEPT ![g] = "swr_register"]
    /\ UNCHANGED <<extVars, ret, reply, result, late, slotVars, sockVars, recvVars,
                   loopVars, tableVars, watchVars, sinkVars>>

\* A registration that leaves the map as it is.
NoSlot(slots, serial, g) == slots

\* The slot a call registers under its serial: the caller's reply channel.
RegisterSlot(slots, serial, g) ==
    [s \in DOMAIN slots \cup {serial} |-> IF s = serial THEN g ELSE slots[s]]

\* SendWithReply: replyChan := make(chan *Message, 1);
\* p.methodCallReplies[serial] = replyChan   (under handlerMutex)
SWR_register(g) ==
    /\ pc[g] = "swr_register"
    /\ methodCallReplies' = RegisterSlot(methodCallReplies, serialOf[g], g)
    /\ replyChan' = [replyChan EXCEPT ![g] = <<>>]
    /\ pc' = [pc EXCEPT ![g] = "swr_write"]
    /\ UNCHANGED <<extVars, ret, serialVars, callVars, sockVars, recvVars, loopVars,
                   tableVars, watchVars, sinkVars>>

\* SendWithReply: _Marshal fails; (nil, err) is returned before any slot is
\* registered.
SWR_MarshalError(g) ==
    /\ pc[g] = "swr_register"
    /\ g \in Users
    /\ result' = [result EXCEPT ![g] = "marshal error"]
    /\ ReturnFromSend(g)
    /\ UNCHANGED <<extVars, serialVars, serialOf, reply, late, slotVars,
                   sockVars, recvVars, loopVars, tableVars, watchVars, sinkVars>>

\* SendWithReply: p.conn.Write(buff)   (the error, if any, is not looked at)
SWR_write(g) ==
    /\ pc[g] = "swr_write"
    /\ wire' = ConnWrite(wire, Chunk(g, "frame"))
    /\ pc' = [pc EXCEPT ![g] = "swr_wait"]
    /\ UNCHANGED <<extVars, ret, serialVars, callVars, slotVars, connClosed, recvVars,
                   loopVars, tableVars, watchVars, sinkVars>>

\* SendWithReply: reply := <-replyChan; return reply, nil
SWR_wait(g) ==
    /\ pc[g] = "swr_wait"
    /\ replyChan[g] # <<>>
    /\ reply' = [reply EXCEPT ![g] = Head(replyChan[g])]
    /\ replyChan' = [replyChan EXCEPT ![g] = Tail(@)]
    /\ result' = [result EXCEPT ![g] = "reply"]
    /\ ReturnFromSend(g)
    /\ UNCHANGED <<extVars, serialVars, serialOf, late, methodCallReplies,
                   sockVars, recvVars, loopVars, tableVars, watchVars, sinkVars>>

\* ------------------------------------------------------ the bus, as we see it

\* Serials of the method calls whose frame is completely on the socket.
CallsWritten ==
    {wire[i].serial : i \in {j \in DOMAIN wire :
        wire[j].part \in {"frame", "body"} /\ wire[j].type = "method_call"}}

\* What the bus may hand to readMessage.  Replies: a method_return or an
\* error for any call written so far, in any order and possibly more than
\* once.
PeerSerial == U32(7)

FromPeer(m) == [m EXCEPT !.serial = PeerSerial, !.Sender = PeerName]

Replies(types) ==
    {[FromPeer(NewMethodReturnMessage([serial |-> s, Sender |-> ""])) EXCEPT !.Type = t] :
        t \in types, s \in CallsWritten}

\* Method calls a peer makes on us.
PeerPing == {FromPeer(NewMethodCallMessage("", "/obj", PeerIface, "Ping"))}

OtherPeerSerial == U32(8)

PeerCalls ==
    {[FromPeer(NewMethodCallMessage("", pth, "com.example", "Do")) EXCEPT !.serial = s] :
        pth \in {"/obj", "/none"}, s \in {PeerSerial, OtherPeerSerial}}

\* A method call of the peer on the path user code registers during the run.
PeerCallNew == {FromPeer(NewMethodCallMessage("", "/new", "com.example", "Do"))}

\* The daemon's NameOwnerChanged signal for the watched name with the given
\* new owner.
NameOwnerChanged(newOwner) ==
    [NewSignalMessage(BUS_DAEMON_PATH, BUS_DAEMON_IFACE, "NameOwnerChanged")
        EXCEPT !.serial = PeerSerial, !.Sender = BUS_DAEMON_NAME, !.Arg = newOwner]

\* The owners the watched name can have: none or the peer.
Owners == {"", PeerName}

OwnerChanges == {NameOwnerChanged(o) : o \in Owners}

\* Serials of the calls of the given member whose frame is on the socket.
CallsWrittenOf(member) ==
    {wire[i].serial : i \in {j \in DOMAIN wire :
        wire[j].part = "frame" /\ wire[j].type = "method_call"
                                /\ wire[j].member = member}}

\* The daemon's answer of type t to the call with serial s, with one argument.
DaemonReply(s, t, arg) ==
    [FromPeer(NewMethodReturnMessage([serial |-> s, Sender |-> ""]))
        EXCEPT !.Type = t, !.Arg = arg]

\* The daemon's answers to AddMatch (success or an error) and to GetNameOwner
\* (an owner, or the error NameHasNoOwner).
NameReplies ==
    {DaemonReply(s, t, "") : s \in CallsWrittenOf("AddMatch"),
                             t \in {"method_return", "error"}}
      \cup {DaemonReply(s, "method_return", o) :
                s \in CallsWrittenOf("GetNameOwner"), o \in Owners \ {""}}
      \cup {DaemonReply(s, "error", "") : s \in CallsWrittenOf("GetNameOwner")}

\* The peer leaves the bus: its unique name loses its owner.
OwnerLost == {NameOwnerChanged("")}

\* The signal of the peer that the watch sw is for.
SignalsToSw == {FromPeer(NewSignalMessage("/obj", "com.example", "Changed"))}

\* Signals a peer emits.
PeerSignals ==
    {FromPeer(NewSignalMessage("/obj", "com.example", m)) : m \in {"Changed", "Other"}}

\* ------------------------------------------------------- _MessageReceiver

\* msg, err := readMessage(p.conn) with err == nil; the run reads at most n
\* messages.
ReadUpTo(offers, n) ==
    /\ recvPc = "read"
    /\ ~connClosed
    /\ Len(rx) < n
    /\ \E m \in offers : rx' = Append(rx, m)
    /\ recvPc' = "send"
    /\ UNCHANGED <<extVars, pc, ret, serialVars, callVars, slotVars, sockVars,
                   msgChanClosed, loopVars, tableVars, watchVars, sinkVars>>

RecvRead(offers) == ReadUpTo(offers, MaxRead)

\* readMessage fails (the socket was shut by Close, or the peer hung up):
\* break out of the loop and close(msgChan).
RecvError ==
    /\ recvPc = "read"
    /\ recvPc' = "done"
    /\ msgChanClosed' = TRUE
    /\ UNCHANGED <<extVars, pc, ret, serialVars, callVars, slotVars, sockVars, rx,
                   loopVars, tableVars, watchVars, sinkVars>>

\* ------------------------------------------------------------ message filters

\* What one registered filter returns for a message: the message, nil
\* (NoMsg), or another message.
ApplyFilter(f, m) ==
    CASE f = "drop" -> NoMsg
      [] f = "dropOther" -> IF m.Member = "Other" THEN NoMsg ELSE m
      [] f = "dropReplies" -> IF m.Type \in {"method_return", "error"} THEN NoMsg ELSE m
      [] f = "replace" -> [m EXCEPT !.Member = "Replaced"]
      [] OTHER -> m

\* The filter loop: `msg := filter.filter(msg)` declares a new msg inside the
\* loop body, so every filter is given the message as it was read and the
\* message dispatched afterwards is that same message; a nil result returns.
\* FilterCalls is the calls the loop makes for the message read as rx[j].
RECURSIVE FilterCalls(_, _, _)
FilterCalls(fs, m, j) ==
    IF fs = <<>> THEN <<>>
    ELSE LET out == ApplyFilter(Head(fs), m)
         IN <<[msg |-> j, filter |-> Head(fs), given |-> m, returned |-> out]>>
              \o (IF out = NoMsg THEN <<>> ELSE FilterCalls(Tail(fs), m, j))

\* A filter loop that goes on to dispatch whatever the filters return.
Unfiltered(fs, m) == m

\* The message _MessageDispatch goes on with after the filter loop, NoMsg if
\* it returned from the loop.
Filtered(fs, m) ==
    IF \E i \in DOMAIN fs : ApplyFilter(fs[i], m) = NoMsg THEN NoMsg ELSE m

\* ---------------------------------------------------------------- _RunLoop

\* msgChan <- msg in the receiver meets `for msg := range msgChan` in the run
\* loop (the channel is unbuffered); _MessageDispatch starts by running the
\* message through the filters.
LoopTake ==
    /\ pc[Loop] = "recv"
    /\ recvPc = "send"
    /\ loopMsg' = Len(rx)
    /\ recvPc' = "read"
    /\ filterLog' = filterLog \o FilterCalls(messageFilters, rx[Len(rx)], Len(rx))
    /\ pc' = [pc EXCEPT ![Loop] = "dispatch"]
    /\ UNCHANGED <<busVars, stageVars, callArg, seen, ret, serialVars, callVars, slotVars, sockVars, rx,
                   msgChanClosed, loopMatches, tableVars, watchVars, sinkVars>>

\* range msgChan ends: the channel is closed and empty.
LoopExit ==
    /\ pc[Loop] = "recv"
    /\ msgChanClosed
    /\ pc' = [pc EXCEPT ![Loop] = "done"]
    /\ UNCHANGED <<extVars, ret, serialVars, callVars, slotVars, sockVars, recvVars,
                   loopVars, tableVars, watchVars, sinkVars>>

\* -------------------------------------------------------- _MessageDispatch

CurMsg == Filtered(messageFilters, rx[loopMsg])

Dispatching(type) ==
    /\ pc[Loop] = "dispatch"
    /\ CurMsg # NoMsg
    /\ CurMsg.Type = type

\* A filter returned nil: _MessageDispatch returns and the loop takes the
\* next message.
DispatchDropped ==
    /\ pc[Loop] = "dispatch"
    /\ CurMsg = NoMsg
    /\ pc' = [pc EXCEPT ![Loop] = "recv"]
    /\ UNCHANGED <<extVars, ret, serialVars, callVars, slotVars, sockVars, recvVars,
                   loopVars, tableVars, watchVars, sinkVars>>

\* The loop goroutine sends m with Connection.Send and then takes the next
\* message.
LoopSend(m) ==
    /\ outMsg' = [outMsg EXCEPT ![Loop] = m]
    /\ Invoke(Loop, "send_serial", "recv")

\* case TypeMethodCall, org.freedesktop.DBus.Peer Ping / GetMachineId:
\* reply := NewMethodReturnMessage(msg); p.Send(reply)
DispatchPeer ==
    /\ Dispatching("method_call")
    /\ CurMsg.Iface = PeerIface /\ CurMsg.Member \in {"Ping", "GetMachineId"}
    /\ LoopSend(NewMethodReturnMessage(CurMsg))
    /\ UNCHANGED <<extVars, serialVars, serialOf, reply, result, late, slotVars, sockVars,
                   recvVars, loopVars, tableVars, watchVars, sinkVars>>

\* A lookup that finds no path registered.
NeverRegistered(handlers, path) == FALSE

\* _, ok := p.objectPathHandlers[path]
HasHandler(handlers, path) == path \in DOMAIN handlers

\* default, a handler is registered for msg.Path: handler <- msg
DispatchToHandler ==
    /\ Dispatching("method_call")
    /\ ~(CurMsg.Iface = PeerIface /\ CurMsg.Member \in {"Ping", "GetMachineId"})
    /\ HasHandler(objectPathHandlers, CurMsg.Path)
    /\ handled' = Append(handled, loopMsg)
    /\ pc' = [pc EXCEPT ![Loop] = "recv"]
    /\ UNCHANGED <<extVars, ret, serialVars, callVars, slotVars, sockVars, recvVars,
                   loopVars, tableVars, watchVars, delivered>>

\* default, no handler: reply := NewErrorMessage(msg, UnknownObject, ...);
\* p.Send(reply)
DispatchUnknownObject ==
    /\ Dispatching("method_call")
    /\ ~(CurMsg.Iface = PeerIface /\ CurMsg.Member \in {"Ping", "GetMachineId"})
    /\ ~HasHandler(objectPathHandlers, CurMsg.Path)
    /\ LoopSend(NewErrorMessage(CurMsg, UnknownObject))
    /\ UNCHANGED <<extVars, serialVars, serialOf, reply, result, late, slotVars, sockVars,
                   recvVars, loopVars, tableVars, watchVars, sinkVars>>

\* Correlation by arrival order: a reply goes to the oldest call still
\* waiting, whatever reply serial it carries.
OldestSlot(slots, m) ==
    IF DOMAIN slots = {} THEN m.replySerial
    ELSE CHOOSE s \in DOMAIN slots : \A t \in DOMAIN slots : ~SerialLess(t, s)

\* The slot a reply is delivered to: p.methodCallReplies[msg.replySerial].
ReplySlot(slots, m) == m.replySerial

\* A lookup that leaves the entry in the map.
KeepSlot(slots, rs) == slots

\* delete(p.methodCallReplies, rs)
RemoveSlot(slots, rs) == [s \in DOMAIN slots \ {rs} |-> slots[s]]

\* case TypeMethodReturn, TypeError: look the slot up under handlerMutex,
\* delete it, and replyChan <- msg (capacity 1, so the send never blocks);
\* without a slot the message is dropped.
DispatchReply ==
    /\ pc[Loop] = "dispatch"
    /\ CurMsg # NoMsg
    /\ CurMsg.Type \in {"method_return", "error"}
    /\ LET rs == ReplySlot(methodCallReplies, CurMsg)
       IN IF rs \in DOMAIN methodCallReplies
            THEN /\ replyChan' = [replyChan EXCEPT ![methodCallReplies[rs]] =
                                    Append(@, CurMsg)]
                 /\ methodCallReplies' = RemoveSlot(methodCallReplies, rs)
            ELSE UNCHANGED slotVars
    /\ pc' = [pc EXCEPT ![Loop] = "recv"]
    /\ UNCHANGED <<extVars, ret, serialVars, callVars, sockVars, recvVars, loopVars,
                   tableVars, watchVars, sinkVars>>

\* g is inside a call of SignalWatch.Cancel.
InCancel(g) ==
    \/ pc[g] \in {"c_lock", "c_check", "c_after_rnw", "c_after_cancel"}
    \/ \E i \in DOMAIN ret[g] : ret[g][i] \in {"c_after_rnw", "c_after_cancel"}

\* case TypeSignal: watches := p.signalMatchRules.FindMatches(msg)
\* (under handlerMutex)
DispatchSignal ==
    /\ Dispatching("signal")
    /\ loopMatches' = FindMatches(signalMatchRules, CurMsg)
    /\ pc' = [pc EXCEPT ![Loop] =
                IF loopMatches' = <<>> THEN "recv" ELSE "deliver"]
    /\ raced' = (raced \/ ("sw" \in Range(loopMatches') /\ \E g \in Users : InCancel(g)))
    /\ UNCHANGED <<extVars, ret, serialVars, callVars, slotVars, sockVars, recvVars,
                   loopMsg, tableVars, sinkVars, lockVars, watchState, nameVars,
                   panics, cancelRets, countVars, lateSend>>

\* A loop over the matching watches that stops after the first of them.
FirstWatchOnly(ms) == <<>>

\* The watch the loop serves next and the watches left after it.
NextWatch(ms) == Head(ms)
RestWatches(ms) == Tail(ms)

\* The Cancel of the watch behind channel c has returned: for a SignalWatch
\* with nil, for a NameWatch with any result.
CancelReturned(c) ==
    /\ c \in DOMAIN cancelRets
    /\ IF c = NameWatchId THEN cancelRets[c] # <<>> ELSE "nil" \in Range(cancelRets[c])

\* for _, watch := range watches { watch.handler(msg) }: the handler of a
\* SignalWatch is `watch.C <- msg` on an unbuffered channel, so the loop
\* stands here until the watch's consumer receives; a send on a closed
\* channel panics.
DeliverSignal ==
    /\ pc[Loop] = "deliver"
    /\ NextWatch(loopMatches) \in Watches
    /\ LET w == NextWatch(loopMatches)
       IN IF chanClosed[w]
            THEN /\ panics' = panics \cup {"send on closed channel"}
                 /\ pc' = [pc EXCEPT ![Loop] = "panicked"]
                 /\ UNCHANGED <<delivered, loopMatches, lateSend>>
            ELSE /\ delivered' = [delivered EXCEPT ![w] = Append(@, loopMsg)]
                 /\ lateSend' = IF CancelReturned(w) THEN lateSend \cup {w} ELSE lateSend
                 /\ loopMatches' = RestWatches(loopMatches)
                 /\ pc' = [pc EXCEPT ![Loop] =
                             IF loopMatches' = <<>> THEN "recv" ELSE "deliver"]
                 /\ UNCHANGED panics
    /\ UNCHANGED <<extVars, ret, serialVars, callVars, slotVars, sockVars, recvVars,
                   loopMsg, tableVars, handled, lockVars, watchState, nameVars,
                   cancelRets, countVars, raced>>

\* ------------------------------------------------------------ object paths

\* The handler channel registered for /obj before the run starts, and the
\* channel each user goroutine registers.
InitialHandler == "h0"
HandlerOf(g) == IF g = "u1" THEN "h1" ELSE "h2"

\* The object paths user code registers and unregisters.
Paths == {"/obj", "/new"}

\* The arguments of the API call a goroutine is in.
NoArg == [path |-> "", handler |-> "", watch |-> ""]

\* User code calls RegisterObjectPath(path, handler) or
\* UnregisterObjectPath(path); a panic of the call is recovered by the caller.
UserPathCall(g, entry) ==
    /\ pc[g] = "idle"
    /\ \E path \in Paths :
          callArg' = [callArg EXCEPT ![g] =
                        [path |-> path, watch |-> "",
                         handler |-> IF entry = "rop" THEN HandlerOf(g) ELSE ""]]
    /\ result' = [result EXCEPT ![g] = "none"]
    /\ Invoke(g, entry, "idle")
    /\ UNCHANGED <<serialVars, serialOf, outMsg, reply, late, slotVars, sockVars,
                   recvVars, loopVars, tableVars, sinkVars, watchVars, filterLog,
                   seen, busVars, stageVars>>

\* RegisterObjectPath, with handlerMutex held: panic if the path has a
\* handler, otherwise p.objectPathHandlers[path] = handler; the deferred
\* unlock runs either way.
RegisterObjectPath(g) ==
    /\ pc[g] = "rop"
    /\ IF HasHandler(objectPathHandlers, callArg[g].path)
         THEN /\ panics' = panics \cup {"A handler has already been registered"}
              /\ result' = [result EXCEPT ![g] = "panic"]
              /\ UNCHANGED objectPathHandlers
         ELSE /\ objectPathHandlers' =
                   [p \in DOMAIN objectPathHandlers \cup {callArg[g].path} |->
                       IF p = callArg[g].path THEN callArg[g].handler
                       ELSE objectPathHandlers[p]]
              /\ result' = [result EXCEPT ![g] = "ok"]
              /\ UNCHANGED panics
    /\ Return(g)
    /\ UNCHANGED <<serialVars, serialOf, outMsg, reply, late, slotVars, sockVars,
                   recvVars, loopVars, messageFilters, signalMatchRules, sinkVars,
                   lockVars, watchState, nameVars, cancelRets, countVars, raceVars,
                   extVars>>

\* UnregisterObjectPath, with handlerMutex held: panic if the path has no
\* handler, otherwise delete(p.objectPathHandlers, path).
UnregisterObjectPath(g) ==
    /\ pc[g] = "uop"
    /\ IF ~HasHandler(objectPathHandlers, callArg[g].path)
         THEN /\ panics' = panics \cup {"No handler registered"}
              /\ result' = [result EXCEPT ![g] = "panic"]
              /\ UNCHANGED objectPathHandlers
         ELSE /\ objectPathHandlers' =
                   [p \in DOMAIN objectPathHandlers \ {callArg[g].path} |->
                       objectPathHandlers[p]]
              /\ result' = [result EXCEPT ![g] = "ok"]
              /\ UNCHANGED panics
    /\ Return(g)
    /\ UNCHANGED <<serialVars, serialOf, outMsg, reply, late, slotVars, sockVars,
                   recvVars, loopVars, messageFilters, signalMatchRules, sinkVars,
                   lockVars, watchState, nameVars, cancelRets, countVars, raceVars,
                   extVars>>

\* ------------------------------------------------------ mutexes and results

\* What the watch layer never touches in the connection.
connRest == <<serialVars, slotVars, sockVars, recvVars, loopVars, sinkVars,
              messageFilters, objectPathHandlers>>

\* sync.Mutex: Lock blocks while another goroutine, or the caller itself,
\* holds the mutex.
Free(l) == mutex[l] = "free"
Acquire(l, g) == mutex' = [mutex EXCEPT ![l] = g]
Release(ls) == mutex' = [l \in Locks |-> IF l \in ls THEN "free" ELSE mutex[l]]

\* g returns r from the procedure it is in.
ReturnWith(g, r) ==
    /\ result' = [result EXCEPT ![g] = r]
    /\ Return(g)

\* g returns r from Cancel of watch w: user code is back at its idle point,
\* the owner-change callback drops the result.
CancelReturn(g, w, r) ==
    /\ cancelRets' = [cancelRets EXCEPT ![w] = Append(@, r)]
    /\ ReturnWith(g, "none")

\* close(c) on an open channel.
CloseChan(c) == chanClosed' = [chanClosed EXCEPT ![c] = TRUE]

\* A run-time panic in g.
Panic(g, what) ==
    /\ panics' = panics \cup {what}
    /\ pc' = [pc EXCEPT ![g] = "panicked"]

\* g is inside a call of NameWatch.Cancel.
InNameCancel(g) ==
    \/ pc[g] \in {"n_lock", "n_check", "n_after_rnw"}
    \/ \E i \in DOMAIN ret[g] : ret[g][i] = "n_after_rnw"

\* The Cancel calls user code has made so far: those that returned and
\* those still running.
CancelsBegun ==
    Len(cancelRets["sw"]) + Len(cancelRets[NameWatchId])
      + Cardinality({h \in Users : InCancel(h) \/ InNameCancel(h)})

\* ------------------------------------------------------- SignalWatch.Cancel

\* User code calls Cancel on the SignalWatch sw.
UserCancel(g) ==
    /\ pc[g] = "idle"
    /\ CancelsBegun < MaxCancels
    /\ Invoke(g, "c_lock", "idle")
    /\ UNCHANGED <<extVars, callVars, signalMatchRules, connRest, lockVars, watchState,
                   nameVars, panics, cancelRets, countVars, raceVars>>

\* Cancel: watch.lock.Lock()
C_lock(g) ==
    /\ pc[g] = "c_lock"
    /\ Free("watch.lock")
    /\ Acquire("watch.lock", g)
    /\ pc' = [pc EXCEPT ![g] = "c_check"]
    /\ UNCHANGED <<extVars, ret, callVars, signalMatchRules, connRest, watchState,
                   nameVars, ghostVars>>

\* Cancel: if watch.signalWatch == nil { return nil }; otherwise
\* removeNameWatch(watch.nameWatch) (the name watch of sw is never nil).
C_check(g) ==
    /\ pc[g] = "c_check"
    /\ IF ~swInternal
         THEN /\ Release({"watch.lock"})
              /\ CancelReturn(g, "sw", "nil")
         ELSE /\ Invoke(g, "rnw_mutex", "c_after_rnw")
              /\ UNCHANGED <<mutex, cancelRets, result>>
    /\ UNCHANGED <<extVars, serialOf, outMsg, reply, late, signalMatchRules, connRest,
                   watchState, nameVars, panics, countVars, raceVars>>

\* Cancel: removeNameWatch returned: if err != nil { return err }; otherwise
\* err := internal.cancel()
C_afterRemoveNameWatch(g) ==
    /\ pc[g] = "c_after_rnw"
    /\ IF result[g] # "nil"
         THEN /\ Release({"watch.lock"})
              /\ CancelReturn(g, "sw", result[g])
         ELSE /\ Invoke(g, "ic_lock", "c_after_cancel")
              /\ UNCHANGED <<mutex, cancelRets, result>>
    /\ UNCHANGED <<extVars, serialOf, outMsg, reply, late, signalMatchRules, connRest,
                   watchState, nameVars, panics, countVars, raceVars>>

\* Cancel: internal.cancel() returned: if err != nil { return err };
\* watch.signalWatch = nil; close(watch.C); return nil
C_afterCancel(g) ==
    /\ pc[g] = "c_after_cancel"
    /\ IF result[g] # "nil"
         THEN /\ Release({"watch.lock"})
              /\ CancelReturn(g, "sw", result[g])
              /\ UNCHANGED <<swInternal, chanClosed, panics>>
         ELSE /\ swInternal' = FALSE
              /\ IF chanClosed["sw"]
                   THEN /\ Panic(g, "close of closed channel")
                        /\ UNCHANGED <<ret, mutex, cancelRets, result, chanClosed>>
                   ELSE /\ CloseChan("sw")
                        /\ Release({"watch.lock"})
                        /\ CancelReturn(g, "sw", "nil")
                        /\ UNCHANGED panics
    /\ UNCHANGED <<extVars, serialOf, outMsg, reply, late, signalMatchRules, connRest,
                   cancelled, nameVars, countVars, raceVars>>

\* --------------------------------------------------------- removeNameWatch

\* removeNameWatch: info.bus.nameInfoMutex.Lock()
RNW_mutex(g) ==
    /\ pc[g] = "rnw_mutex"
    /\ Free("nameInfoMutex")
    /\ Acquire("nameInfoMutex", g)
    /\ pc' = [pc EXCEPT ![g] = "rnw_lock"]
    /\ UNCHANGED <<extVars, ret, callVars, signalMatchRules, connRest, watchState,
                   nameVars, ghostVars>>

\* removeNameWatch: info.lock.Lock()
RNW_lock(g) ==
    /\ pc[g] = "rnw_lock"
    /\ Free("info.lock")
    /\ Acquire("info.lock", g)
    /\ pc' = [pc EXCEPT ![g] = "rnw_body"]
    /\ UNCHANGED <<extVars, ret, callVars, signalMatchRules, connRest, watchState,
                   nameVars, ghostVars>>

\* The name watch g is removing: that of sw when called from
\* SignalWatch.Cancel or from WatchSignal, that of the NameWatch when called
\* from NameWatch.Cancel.
RemovedFor(g) ==
    IF Head(ret[g]) \in {"c_after_rnw", "wsig_fail"} THEN "sw" ELSE NameWatchId

\* A removal that leaves the slice as it is.
KeepSlice(seq, x) == seq

\* The removal loop of removeNameWatch: the last element takes the place of
\* the removed one and the slice is cut by one.
SliceRemove(seq, x) ==
    LET at == {i \in DOMAIN seq : seq[i] = x}
        i == CHOOSE n \in at : \A o \in at : n <= o
        moved == [seq EXCEPT ![i] = seq[Len(seq)]]
    IN SubSeq(moved, 1, Len(seq) - 1)

\* removeNameWatch, with both locks held: take the watch out of
\* info.watches; not found: return an error; other watches left: return nil;
\* otherwise delete the nameInfo from the map and info.signalWatch.cancel().
RNW_body(g) ==
    /\ pc[g] = "rnw_body"
    /\ LET nw == RemovedFor(g)
       IN IF nw \notin Range(watches)
            THEN /\ Release({"nameInfoMutex", "info.lock"})
                 /\ ReturnWith(g, "NameOwnerWatch already cancelled")
                 /\ UNCHANGED <<watches, nameInfo, nwRemoved>>
            ELSE /\ watches' = SliceRemove(watches, nw)
                 /\ nwRemoved' = [nwRemoved EXCEPT ![nw] = @ + 1]
                 /\ IF watches' # <<>>
                      THEN /\ Release({"nameInfoMutex", "info.lock"})
                           /\ ReturnWith(g, "nil")
                           /\ UNCHANGED nameInfo
                      ELSE /\ nameInfo' = FALSE
                           /\ Invoke(g, "ic_lock", "rnw_after_cancel")
                           /\ UNCHANGED <<mutex, result>>
    /\ UNCHANGED <<extVars, serialOf, outMsg, reply, late, signalMatchRules, connRest,
                   watchState, currentOwner, nwChan, ownerCbs, panics,
                   cancelRets, rmCalls, raceVars>>

\* removeNameWatch: info.signalWatch.cancel() returned; the deferred unlocks
\* run and its result is returned.
RNW_afterCancel(g) ==
    /\ pc[g] = "rnw_after_cancel"
    /\ Release({"nameInfoMutex", "info.lock"})
    /\ Return(g)
    /\ UNCHANGED <<extVars, callVars, signalMatchRules, connRest, watchState, nameVars,
                   ghostVars>>

\* ------------------------------------------------------ signalWatch.cancel

\* The signalWatch g is cancelling: the nameInfo's when called from
\* removeNameWatch, that of sw when called from SignalWatch.Cancel.
CancelTarget(g) == IF Head(ret[g]) = "rnw_after_cancel" THEN NameInfoWatch ELSE "sw"

CancelLockOf(t) == IF t = "sw" THEN "sw.cancelLock" ELSE "ni.cancelLock"

\* MessageBus.RemoveMatch(rule.String()): the call message.
RemoveMatchCall(t) ==
    [NewMethodCallMessage(BUS_DAEMON_NAME, BUS_DAEMON_PATH, BUS_DAEMON_IFACE,
                          "RemoveMatch") EXCEPT !.Arg = t]

\* cancel: watch.cancelLock.Lock()
IC_lock(g) ==
    /\ pc[g] = "ic_lock"
    /\ Free(CancelLockOf(CancelTarget(g)))
    /\ Acquire(CancelLockOf(CancelTarget(g)), g)
    /\ pc' = [pc EXCEPT ![g] = "ic_body"]
    /\ UNCHANGED <<extVars, ret, callVars, signalMatchRules, connRest, watchState,
                   nameVars, ghostVars>>

\* cancel: if watch.cancelled { return nil }; foundMatch := Remove(watch)
\* under handlerMutex; if foundMatch, call RemoveMatch on the daemon;
\* otherwise watch.cancelled = true; return nil
IC_body(g) ==
    /\ pc[g] = "ic_body"
    /\ LET t == CancelTarget(g)
           foundMatch == t \in InSet(signalMatchRules)
       IN IF cancelled[t]
            THEN /\ Release({CancelLockOf(t)})
                 /\ ReturnWith(g, "nil")
                 /\ UNCHANGED <<signalMatchRules, cancelled, rmCalls, outMsg>>
            ELSE /\ signalMatchRules' = SetRemove(signalMatchRules, t)
                 /\ IF foundMatch
                      THEN /\ rmCalls' = [rmCalls EXCEPT ![t] = @ + 1]
                           /\ outMsg' = [outMsg EXCEPT ![g] = RemoveMatchCall(t)]
                           /\ Invoke(g, "swr_serial", "ic_after_rm")
                           /\ UNCHANGED <<mutex, cancelled, result>>
                      ELSE /\ cancelled' = [cancelled EXCEPT ![t] = TRUE]
                           /\ Release({CancelLockOf(t)})
                           /\ ReturnWith(g, "nil")
                           /\ UNCHANGED <<rmCalls, outMsg>>
    /\ UNCHANGED <<extVars, serialOf, reply, late, connRest, swInternal, chanClosed,
                   nameVars, panics, cancelRets, nwRemoved, raceVars>>

\* cancel: RemoveMatch returned (ObjectProxy.Call turns an error reply into
\* an error): if err != nil { return err }; watch.cancelled = true; return nil
IC_afterRemoveMatch(g) ==
    /\ pc[g] = "ic_after_rm"
    /\ LET t == CancelTarget(g)
       IN /\ IF reply[g].Type = "error"
               THEN /\ ReturnWith(g, "RemoveMatch error")
                    /\ UNCHANGED cancelled
               ELSE /\ cancelled' = [cancelled EXCEPT ![t] = TRUE]
                    /\ ReturnWith(g, "nil")
          /\ Release({CancelLockOf(t)})
    /\ serialOf' = [serialOf EXCEPT ![g] = NoSerial]
    /\ reply' = [reply EXCEPT ![g] = NoMsg]
    /\ UNCHANGED <<extVars, outMsg, late, signalMatchRules, connRest,
                   swInternal, chanClosed, nameVars, ghostVars>>

\* --------------------------------------------------------- NameWatch.Cancel

\* User code calls Cancel on the NameWatch.
UserCancelName(g) ==
    /\ pc[g] = "idle"
    /\ CancelsBegun < MaxCancels
    /\ Invoke(g, "n_lock", "idle")
    /\ UNCHANGED <<extVars, callVars, signalMatchRules, connRest, lockVars, watchState,
                   nameVars, panics, cancelRets, countVars, raceVars>>

\* NameWatch.Cancel: watch.cancelLock.Lock()
N_lock(g) ==
    /\ pc[g] = "n_lock"
    /\ Free("nw.cancelLock")
    /\ Acquire("nw.cancelLock", g)
    /\ pc' = [pc EXCEPT ![g] = "n_check"]
    /\ UNCHANGED <<extVars, ret, callVars, signalMatchRules, connRest, watchState,
                   nameVars, ghostVars>>

\* NameWatch.Cancel: if watch.cancelled { return nil };
\* watch.cancelled = true; err := removeNameWatch(watch.watch)
N_check(g) ==
    /\ pc[g] = "n_check"
    /\ IF cancelled[NameWatchId]
         THEN /\ Release({"nw.cancelLock"})
              /\ CancelReturn(g, NameWatchId, "nil")
              /\ UNCHANGED cancelled
         ELSE /\ cancelled' = [cancelled EXCEPT ![NameWatchId] = TRUE]
              /\ Invoke(g, "rnw_mutex", "n_after_rnw")
              /\ UNCHANGED <<mutex, cancelRets, result>>
    /\ UNCHANGED <<extVars, serialOf, outMsg, reply, late, signalMatchRules, connRest,
                   swInternal, chanClosed, nameVars, panics, countVars, raceVars>>

\* NameWatch.Cancel: close(watch.C); return err
N_afterRemoveNameWatch(g) ==
    /\ pc[g] = "n_after_rnw"
    /\ IF chanClosed[NameWatchId]
         THEN /\ Panic(g, "close of closed channel")
              /\ UNCHANGED <<ret, mutex, cancelRets, result, chanClosed>>
         ELSE /\ CloseChan(NameWatchId)
              /\ Release({"nw.cancelLock"})
              /\ CancelReturn(g, NameWatchId, result[g])
              /\ UNCHANGED panics
    /\ UNCHANGED <<extVars, serialOf, outMsg, reply, late, signalMatchRules, connRest,
                   swInternal, cancelled, nameVars, countVars,
                   raceVars>>

\* ------------------------------------------------ nameInfo.handleOwnerChange

\* for _, watch := range watches { watch.handler(msg) }: the handler of the
\* nameInfo's signalWatch decodes the new owner and calls
\* info.handleOwnerChange(newOwner, false).
DeliverOwnerChange ==
    /\ pc[Loop] = "deliver"
    /\ NextWatch(loopMatches) = NameInfoWatch
    /\ loopMatches' = RestWatches(loopMatches)
    /\ Invoke(Loop, "hoc_lock", IF loopMatches' = <<>> THEN "recv" ELSE "deliver")
    /\ UNCHANGED <<extVars, serialVars, callVars, slotVars, sockVars, recvVars, loopMsg,
                   tableVars, sinkVars, watchVars>>

\* handleOwnerChange: self.lock.Lock(); self.currentOwner = newOwner; the
\* range over self.watches is set up.
HOC_lock ==
    /\ pc[Loop] = "hoc_lock"
    /\ Free("info.lock")
    /\ Acquire("info.lock", Loop)
    /\ currentOwner' = rx[loopMsg].Arg
    /\ ownerCbs' = watches
    /\ pc' = [pc EXCEPT ![Loop] = "hoc_iter"]
    /\ UNCHANGED <<extVars, ret, callVars, signalMatchRules, connRest, watchState,
                   nameInfo, watches, nwChan, ghostVars>>

\* handleOwnerChange: watch.cb(self.currentOwner) for the name watch of the
\* SignalWatch sw, whose sender is a unique name: if newOwner == "" {
\* watch.Cancel() }
HOC_cbSignalWatch ==
    /\ pc[Loop] = "hoc_iter"
    /\ ownerCbs # <<>>
    /\ Head(ownerCbs) = "sw"
    /\ ownerCbs' = Tail(ownerCbs)
    /\ seen' = [seen EXCEPT !["sw"] = Append(@, currentOwner)]
    /\ IF currentOwner = ""
         THEN Invoke(Loop, "c_lock", "hoc_iter")
         ELSE UNCHANGED <<pc, ret>>
    /\ UNCHANGED <<busVars, stageVars, callArg, filterLog, callVars, signalMatchRules, connRest, lockVars,
                   watchState, nameInfo, watches, currentOwner, nwChan, ghostVars>>

\* handleOwnerChange: watch.cb(self.currentOwner) for the name watch of the
\* NameWatch: watch.C <- owner, on a channel of capacity 1; a send on a
\* closed channel panics, and on a full one the run loop waits for the
\* consumer.
HOC_cbNameWatch ==
    /\ pc[Loop] = "hoc_iter"
    /\ ownerCbs # <<>>
    /\ Head(ownerCbs) \in NameWatches
    /\ LET w == Head(ownerCbs)
       IN IF chanClosed[w]
            THEN /\ Panic(Loop, "send on closed channel")
                 /\ UNCHANGED <<nwChan, ownerCbs, lateSend, seen>>
            ELSE /\ Len(nwChan[w]) < 1
                 /\ nwChan' = [nwChan EXCEPT ![w] = Append(@, currentOwner)]
                 /\ seen' = [seen EXCEPT ![w] = Append(@, currentOwner)]
                 /\ ownerCbs' = Tail(ownerCbs)
                 /\ lateSend' = IF CancelReturned(w) THEN lateSend \cup {w} ELSE lateSend
                 /\ UNCHANGED <<pc, panics>>
    /\ UNCHANGED <<busVars, stageVars, callArg, filterLog, ret, callVars, signalMatchRules, connRest, lockVars,
                   watchState, nameInfo, watches, currentOwner, cancelRets, countVars, raced>>

\* handleOwnerChange: the range is over; the deferred unlock runs.
HOC_done ==
    /\ pc[Loop] = "hoc_iter"
    /\ ownerCbs = <<>>
    /\ Release({"info.lock"})
    /\ Return(Loop)
    /\ UNCHANGED <<extVars, callVars, signalMatchRules, connRest, watchState, nameVars,
                   ghostVars>>

\* The user of a NameWatch receives from watch.C.
ConsumeName(w) ==
    /\ nwChan[w] # <<>>
    /\ nwChan' = [nwChan EXCEPT ![w] = Tail(@)]
    /\ UNCHANGED <<extVars, pc, ret, callVars, signalMatchRules, connRest, lockVars,
                   watchState, nameInfo, watches, currentOwner, ownerCbs,
                   ghostVars>>

\* ------------------------------------------------ WatchName, ensureNameWatch

\* The NameWatch a user goroutine's WatchName call makes.
NwOf(g) == IF g = "u1" THEN NameWatchId ELSE "nw2"

\* MessageBus.AddMatch(rule.String()) and MessageBus.GetNameOwner(busName):
\* the call messages.
AddMatchCall(t) ==
    [NewMethodCallMessage(BUS_DAEMON_NAME, BUS_DAEMON_PATH, BUS_DAEMON_IFACE,
                          "AddMatch") EXCEPT !.Arg = t]

GetNameOwnerCall ==
    NewMethodCallMessage(BUS_DAEMON_NAME, BUS_DAEMON_PATH, BUS_DAEMON_IFACE,
                         "GetNameOwner")

\* User code calls WatchName(busName): watch = &NameWatch{C: make(chan
\* string, 1)} and ensureNameWatch(busName, cb).
UserWatchName(g) ==
    /\ pc[g] = "idle"
    /\ NwOf(g) \notin Range(watches)
    /\ callArg' = [callArg EXCEPT ![g] = [NoArg EXCEPT !.watch = NwOf(g)]]
    /\ result' = [result EXCEPT ![g] = "none"]
    /\ Invoke(g, "enw_mutex", "idle")
    /\ UNCHANGED <<serialOf, outMsg, reply, late, signalMatchRules, connRest,
                   watchVars, filterLog, seen, busVars, stageVars>>

\* ensureNameWatch: p.nameInfoMutex.Lock()
ENW_mutex(g) ==
    /\ pc[g] = "enw_mutex"
    /\ Free("nameInfoMutex")
    /\ Acquire("nameInfoMutex", g)
    /\ pc' = [pc EXCEPT ![g] = "enw_lookup"]
    /\ UNCHANGED <<extVars, ret, callVars, signalMatchRules, connRest, watchState,
                   nameVars, ghostVars>>

\* ensureNameWatch: info, ok := p.nameInfo[busName]; if !ok, newNameInfo
\* makes an info with currentOwner "\x00" and no watches and calls
\* watchSignal, which adds the NameOwnerChanged watch to the set under
\* handlerMutex and calls AddMatch on the daemon.
ENW_lookup(g) ==
    /\ pc[g] = "enw_lookup"
    /\ IF nameInfo
         THEN /\ pc' = [pc EXCEPT ![g] = "enw_lock"]
              /\ UNCHANGED <<ret, outMsg, signalMatchRules, currentOwner, cancelled>>
         ELSE /\ currentOwner' = Unresolved
              /\ signalMatchRules' = SetAdd(signalMatchRules, NameInfoWatch)
              /\ cancelled' = [cancelled EXCEPT ![NameInfoWatch] = FALSE]
              /\ outMsg' = [outMsg EXCEPT ![g] = AddMatchCall(NameInfoWatch)]
              /\ Invoke(g, "swr_serial", "ws_after_add")
    /\ UNCHANGED <<extVars, serialOf, reply, result, late, connRest, mutex,
                   swInternal, chanClosed, nameInfo, watches, nwChan, ownerCbs,
                   ghostVars>>

\* watchSignal: AddMatch returned.  An error: the watch is removed from the
\* set, and newNameInfo, ensureNameWatch (its deferred unlock runs) and
\* WatchName return the error.  Otherwise info.signalWatch = watch and
\* checkCurrentOwner calls GetNameOwner on the daemon.
WS_afterAddMatch(g) ==
    /\ pc[g] = "ws_after_add"
    /\ IF reply[g].Type = "error"
         THEN /\ signalMatchRules' = SetRemove(signalMatchRules, NameInfoWatch)
              /\ Release({"nameInfoMutex"})
              /\ ReturnWith(g, "AddMatch error")
              /\ UNCHANGED outMsg
         ELSE /\ outMsg' = [outMsg EXCEPT ![g] = GetNameOwnerCall]
              /\ Invoke(g, "swr_serial", "cco_lock")
              /\ UNCHANGED <<signalMatchRules, mutex, result>>
    /\ serialOf' = [serialOf EXCEPT ![g] = NoSerial]
    /\ reply' = [reply EXCEPT ![g] = NoMsg]
    /\ UNCHANGED <<extVars, late, connRest, watchState, nameVars, ghostVars>>

\* An info that never counts its owner as known.
OwnerNeverKnown(owner) == FALSE

\* info.currentOwner != "\x00"
KnowsOwner(owner) == owner # Unresolved

\* The owner GetNameOwner returned: "" when the call failed.
OwnerIn(m) == IF m.Type = "error" THEN "" ELSE m.Arg

\* checkCurrentOwner: GetNameOwner returned; self.lock.Lock(); if
\* self.currentOwner == "\x00" { self.handleOwnerChange(currentOwner, true) }
\* (the new info has no watches yet, so no callback is called); unlock;
\* back in ensureNameWatch: p.nameInfo[busName] = info.
CCO_lock(g) ==
    /\ pc[g] = "cco_lock"
    /\ Free("info.lock")
    /\ currentOwner' = IF KnowsOwner(currentOwner) THEN currentOwner
                        ELSE OwnerIn(reply[g])
    /\ nameInfo' = TRUE
    /\ pc' = [pc EXCEPT ![g] = "enw_lock"]
    /\ serialOf' = [serialOf EXCEPT ![g] = NoSerial]
    /\ reply' = [reply EXCEPT ![g] = NoMsg]
    /\ UNCHANGED <<extVars, ret, outMsg, result, late, signalMatchRules, connRest,
                   lockVars, watchState, watches, nwChan, ownerCbs, ghostVars>>

\* ensureNameWatch: info.lock.Lock(); info.watches = append(info.watches,
\* watch); if info.currentOwner != "\x00" { cb(info.currentOwner) }; the
\* callback of a NameWatch is watch.C <- owner on its new channel of
\* capacity 1; both deferred unlocks run and WatchName returns the watch.
ENW_lock(g) ==
    /\ pc[g] = "enw_lock"
    /\ callArg[g].watch \in NameWatches
    /\ Free("info.lock")
    /\ LET w == callArg[g].watch
       IN /\ watches' = Append(watches, w)
          /\ IF KnowsOwner(currentOwner)
               THEN /\ nwChan' = [nwChan EXCEPT ![w] = Append(@, currentOwner)]
                    /\ seen' = [seen EXCEPT ![w] = Append(@, currentOwner)]
               ELSE UNCHANGED <<nwChan, seen>>
    /\ Release({"nameInfoMutex"})
    /\ ReturnWith(g, "ok")
    /\ UNCHANGED <<busVars, stageVars, callArg, filterLog, serialOf, outMsg, reply, late,
                   signalMatchRules, connRest, watchState, nameInfo, currentOwner,
                   ownerCbs, ghostVars>>

\* ------------------------------------------------- Connection.WatchSignal

\* The watches user code asks WatchSignal for: sw, whose sender is a unique
\* name; w1, without a sender; wx, whose rule is not for signals.
NewWatches == {"sw", "w1", "wx"}

\* g is inside a call of WatchSignal.
InWatchSignal(g) ==
    \/ pc[g] \in {"wsig_named", "wsig_watch", "wsig_after_add", "wsig_fail"}
    \/ \E i \in DOMAIN ret[g] :
          ret[g][i] \in {"wsig_named", "wsig_after_add", "wsig_fail"}

\* The rule names a sender other than the daemon.
HasNameWatch(w) == Rule(w).Sender # "" /\ Rule(w).Sender # BUS_DAEMON_NAME

\* User code calls WatchSignal(rule) for a watch that does not exist: if
\* rule.Type != TypeSignal the error is returned at once; otherwise the new
\* SignalWatch is locked (only the lock of sw is one a second goroutine ever
\* asks for) and, for a rule with a sender, ensureNameWatch is called.
UserWatchSignal(g, w) ==
    /\ pc[g] = "idle"
    /\ w \notin InSet(signalMatchRules)
    /\ \A h \in Users : ~(InWatchSignal(h) /\ callArg[h].watch = w)
    /\ w = "sw" => ~swInternal /\ "sw" \notin Range(watches) /\ Free("watch.lock")
    /\ callArg' = [callArg EXCEPT ![g] = [NoArg EXCEPT !.watch = w]]
    /\ IF Rule(w).Type # "signal"
         THEN /\ result' = [result EXCEPT ![g] = "Match rule is not for signals"]
              /\ UNCHANGED <<pc, ret, mutex>>
         ELSE /\ result' = [result EXCEPT ![g] = "none"]
              /\ IF w = "sw" THEN Acquire("watch.lock", g) ELSE UNCHANGED mutex
              /\ pc' = [pc EXCEPT ![g] = IF HasNameWatch(w) THEN "enw_mutex"
                                          ELSE "wsig_watch"]
              /\ ret' = [ret EXCEPT ![g] = IF HasNameWatch(w)
                                             THEN <<"wsig_named", "idle">> \o @
                                             ELSE <<"idle">> \o @]
    /\ UNCHANGED <<serialOf, outMsg, reply, late, signalMatchRules, connRest,
                   watchState, nameVars, ghostVars, filterLog, seen, busVars,
                   stageVars>>

\* ensureNameWatch for the callback of sw: info.lock.Lock(); info.watches =
\* append(info.watches, watch)
ENW_lockSw(g) ==
    /\ pc[g] = "enw_lock"
    /\ callArg[g].watch = "sw"
    /\ Free("info.lock")
    /\ Acquire("info.lock", g)
    /\ watches' = Append(watches, "sw")
    /\ pc' = [pc EXCEPT ![g] = "enw_cb"]
    /\ UNCHANGED <<extVars, ret, callVars, signalMatchRules, connRest, watchState,
                   nameInfo, currentOwner, nwChan, ownerCbs, ghostVars>>

\* ensureNameWatch: if info.currentOwner != "\x00" { cb(info.currentOwner) };
\* the callback of sw, whose sender is a unique name: if newOwner == "" {
\* watch.Cancel() }
ENW_cb(g) ==
    /\ pc[g] = "enw_cb"
    /\ IF KnowsOwner(currentOwner)
         THEN /\ seen' = [seen EXCEPT !["sw"] = Append(@, currentOwner)]
              /\ IF currentOwner = ""
                   THEN Invoke(g, "c_lock", "enw_done")
                   ELSE /\ pc' = [pc EXCEPT ![g] = "enw_done"]
                        /\ UNCHANGED ret
         ELSE /\ pc' = [pc EXCEPT ![g] = "enw_done"]
              /\ UNCHANGED <<ret, seen>>
    /\ UNCHANGED <<busVars, stageVars, callArg, filterLog, callVars, signalMatchRules,
                   connRest, watchVars>>

\* ensureNameWatch returns the name watch; both deferred unlocks run.
ENW_done(g) ==
    /\ pc[g] = "enw_done"
    /\ Release({"nameInfoMutex", "info.lock"})
    /\ ReturnWith(g, "ok")
    /\ UNCHANGED <<extVars, serialOf, outMsg, reply, late, signalMatchRules, connRest,
                   watchState, nameVars, ghostVars>>

\* WatchSignal: ensureNameWatch returned: if err != nil { return nil, err }
\* (the deferred unlock of watch.lock runs); watch.nameWatch = nameWatch
WSig_named(g) ==
    /\ pc[g] = "wsig_named"
    /\ IF result[g] # "ok"
         THEN /\ Release({"watch.lock"})
              /\ Return(g)
         ELSE /\ pc' = [pc EXCEPT ![g] = "wsig_watch"]
              /\ UNCHANGED <<ret, mutex>>
    /\ UNCHANGED <<extVars, callVars, signalMatchRules, connRest, watchState, nameVars,
                   ghostVars>>

\* watchSignal: p.signalMatchRules.Add(watch) under handlerMutex, then
\* p.busProxy.AddMatch(rule.String())
WSig_watch(g) ==
    /\ pc[g] = "wsig_watch"
    /\ signalMatchRules' = SetAdd(signalMatchRules, callArg[g].watch)
    /\ outMsg' = [outMsg EXCEPT ![g] = AddMatchCall(callArg[g].watch)]
    /\ Invoke(g, "swr_serial", "wsig_after_add")
    /\ UNCHANGED <<extVars, serialOf, reply, result, late, connRest, watchVars>>

\* watchSignal: AddMatch returned.  An error: the watch is removed from the
\* set under handlerMutex and WatchSignal calls
\* removeNameWatch(watch.nameWatch) if there is a name watch.  Otherwise
\* watch.signalWatch = internal and WatchSignal returns the watch.
WSig_afterAddMatch(g) ==
    /\ pc[g] = "wsig_after_add"
    /\ LET w == callArg[g].watch
       IN IF reply[g].Type = "error"
            THEN /\ signalMatchRules' = SetRemove(signalMatchRules, w)
                 /\ IF HasNameWatch(w)
                      THEN /\ Invoke(g, "rnw_mutex", "wsig_fail")
                           /\ UNCHANGED <<result, mutex>>
                      ELSE /\ ReturnWith(g, "AddMatch error")
                           /\ UNCHANGED mutex
                 /\ UNCHANGED swInternal
            ELSE /\ IF w = "sw"
                      THEN /\ swInternal' = TRUE
                           /\ Release({"watch.lock"})
                      ELSE UNCHANGED <<swInternal, mutex>>
                 /\ ReturnWith(g, "ok")
                 /\ UNCHANGED signalMatchRules
    /\ serialOf' = [serialOf EXCEPT ![g] = NoSerial]
    /\ reply' = [reply EXCEPT ![g] = NoMsg]
    /\ UNCHANGED <<extVars, outMsg, late, connRest, cancelled, chanClosed, nameVars,
                   ghostVars>>

\* WatchSignal: removeNameWatch returned (its result is dropped): return
\* nil, err; the deferred unlock of watch.lock runs.
WSig_fail(g) ==
    /\ pc[g] = "wsig_fail"
    /\ Release({"watch.lock"})
    /\ ReturnWith(g, "AddMatch error")
    /\ UNCHANGED <<extVars, serialOf, outMsg, reply, late, signalMatchRules, connRest,
                   watchState, nameVars, ghostVars>>

\* ------------------------------------------------- the set as a function

\* No FindMatches call has been made.
NotAsked == [msg |-> NoMsg, matches |-> <<>>]

\* No Remove call has been made.
NotRemoved == [watch |-> "", ok |-> FALSE]

\* The watches whose rules the set is tried with: complete rules, rules with
\* an empty path, interface or member, a rule with a sender and a rule with
\* nothing set.
MatchWatches == {"w1", "w2", "sw", "wp", "wi", "wx"}

\* The signals the set is asked about.
MatchSignals ==
    {[NewSignalMessage(pth, iface, member) EXCEPT !.Sender = sender] :
        pth \in {"/obj", "/other"}, iface \in {"com.example", "org.other"},
        member \in {"Changed", ""}, sender \in {PeerName, ":1.7"}}

\* What a step that changes the set leaves alone; the result of an earlier
\* FindMatches or Remove call says nothing about the new set and is dropped.
setRest == <<pc, ret, serialVars, callVars, slotVars, sockVars, recvVars, loopVars,
             messageFilters, objectPathHandlers, sinkVars, watchVars, callArg,
             filterLog, seen, busVars, handshake, lookup, codec, stream>>

\* set.Add(watch) for a watch that is not in the set.
Set_Add(w) ==
    /\ w \notin InSet(signalMatchRules)
    /\ signalMatchRules' = SetAdd(signalMatchRules, w)
    /\ found' = NotAsked
    /\ removed' = NotRemoved
    /\ UNCHANGED setRest

\* set.Remove(watch), for a watch in the set or not.
Set_Remove(w) ==
    /\ signalMatchRules' = SetRemove(signalMatchRules, w)
    /\ removed' = [watch |-> w, ok |-> SetRemoveOk(signalMatchRules, w)]
    /\ found' = NotAsked
    /\ UNCHANGED setRest

\* matches := set.FindMatches(msg)
Set_FindMatches(msg) ==
    /\ found' = [msg |-> msg, matches |-> FindMatches(signalMatchRules, msg)]
    /\ removed' = NotRemoved
    /\ UNCHANGED <<signalMatchRules, setRest>>

\* ---------------------------------------------------- encoder and decoder

\* No handlerForPath call has been made.
NotLookedUp == [path |-> <<>>, ok |-> FALSE, handler |-> "nil"]

\* No encoding has been made.
NotRun == [args |-> <<>>, order |-> "", signature |-> <<>>, data |-> <<>>,
           starts |-> <<>>, err |-> "", out |-> <<>>]

\* A native value is its Go type and its value.  An unsigned integer wider
\* than 16 bits is the sequence of its 16-bit limbs, most significant first;
\* a signed one of 32 or 64 bits and a float64 are the limbs of their bit
\* patterns; an int16 is the number itself; a string is its bytes; a slice is
\* the sequence of its elements, which are values of one basic type.
BasicTypes == {"uint8", "bool", "int16", "uint16", "int32", "uint32", "int64",
               "uint64", "float64", "string", "Signature"}

\* getSignature: the type code of a basic type.
SigCode(type) ==
    CASE type = "uint8" -> "y"
      [] type = "bool" -> "b"
      [] type = "int16" -> "n"
      [] type = "uint16" -> "q"
      [] type = "int32" -> "i"
      [] type = "uint32" -> "u"
      [] type = "int64" -> "x"
      [] type = "uint64" -> "t"
      [] type = "float64" -> "d"
      [] type = "string" -> "s"
      [] type = "Signature" -> "g"

\* getSignature: a slice is "a" and the code of its element type.
getSignature(val) ==
    IF val.type = "slice" THEN <<"a", SigCode(val.elem)>> ELSE <<SigCode(val.type)>>

\* reflect's Kind of a type: Signature is a string type.
KindOf(type) ==
    CASE type = "Signature" -> "String"
      [] type = "uint8" -> "Uint8"
      [] type = "bool" -> "Bool"
      [] type = "int16" -> "Int16"
      [] type = "uint16" -> "Uint16"
      [] type = "int32" -> "Int32"
      [] type = "uint32" -> "Uint32"
      [] type = "int64" -> "Int64"
      [] type = "uint64" -> "Uint64"
      [] type = "float64" -> "Float64"
      [] type = "string" -> "String"
      [] type = "slice" -> "Slice"

Reverse(seq) == [i \in 1..Len(seq) |-> seq[Len(seq) + 1 - i]]

Zeros(n) == [i \in 1..n |-> 0]

\* The bytes of the limbs, most significant first.
BigEndianBytes(limbs) ==
    [i \in 1..(2 * Len(limbs)) |->
        IF i % 2 = 1 THEN limbs[(i + 1) \div 2] \div 256 ELSE limbs[i \div 2] % 256]

\* binary.Write(&self.data, self.order, value) for a fixed-width integer.
PutUint(order, limbs) ==
    IF order = "BigEndian" THEN BigEndianBytes(limbs)
    ELSE Reverse(BigEndianBytes(limbs))

\* self.order.Uint16, Uint32, Uint64: the limbs of the bytes.
GetUint(order, bytes) ==
    LET be == IF order = "BigEndian" THEN bytes ELSE Reverse(bytes)
    IN [i \in 1..(Len(bytes) \div 2) |-> be[2 * i - 1] * 256 + be[2 * i]]

\* encoder.align: zero bytes until length plus offset is a multiple.
Aligned(data, offset, alignment) ==
    data \o Zeros((alignment - ((Len(data) + offset) % alignment)) % alignment)

\* appendValue for a value of a basic type.
appendBasic(data, offset, val, order) ==
    CASE val.type = "uint8" -> Aligned(data, offset, 1) \o <<val.v>>
      [] val.type = "bool" ->
            Aligned(data, offset, 4) \o PutUint(order, <<0, IF val.v THEN 1 ELSE 0>>)
      [] val.type = "int16" ->
            Aligned(data, offset, 2) \o PutUint(order, <<(val.v + Limb) % Limb>>)
      [] val.type = "uint16" -> Aligned(data, offset, 2) \o PutUint(order, <<val.v>>)
      [] val.type \in {"int32", "uint32"} ->
            Aligned(data, offset, 4) \o PutUint(order, val.v)
      [] val.type \in {"int64", "uint64", "float64"} ->
            Aligned(data, offset, 8) \o PutUint(order, val.v)
      [] val.type = "string" ->
            Aligned(data, offset, 4) \o PutUint(order, <<0, Len(val.v)>>)
                \o val.v \o <<0>>
      [] val.type = "Signature" ->
            Aligned(data, offset, 1) \o <<Len(val.v) % 256>> \o val.v \o <<0>>

\* for i := 0; i < v.Len(); i++ { content.appendValue(v.Index(i)) }
RECURSIVE appendElems(_, _, _, _)
appendElems(data, offset, vals, order) ==
    IF vals = <<>> THEN data
    ELSE appendElems(appendBasic(data, offset, Head(vals), order), offset,
                     Tail(vals), order)

\* appendValue: a slice is marshalled to a buffer of its own whose offset is
\* the length of the data so far plus 4, taken before the data is aligned;
\* then align(4), the length of the content, the content.
appendValue(data, offset, val, order) ==
    IF val.type = "slice"
      THEN LET content == appendElems(<<>>, Len(data) + 4, val.v, order)
           IN Aligned(data, offset, 4) \o PutUint(order, <<0, Len(content)>>)
                \o content
      ELSE appendBasic(data, offset, val, order)

\* encoder.Append(args...) on a new encoder: the signature and the data.
RECURSIVE Append_(_, _, _)
Append_(enc, args, order) ==
    IF args = <<>> THEN enc
    ELSE Append_([signature |-> enc.signature \o getSignature(Head(args)),
                  data |-> appendValue(enc.data, 0, Head(args), order)],
                 Tail(args), order)

\* The alignment appendValue asks of align for a value of the type.
AlignmentOf(type) ==
    CASE type \in {"uint8", "Signature"} -> 1
      [] type \in {"int16", "uint16"} -> 2
      [] type \in {"bool", "int32", "uint32", "string", "slice"} -> 4
      [] type \in {"int64", "uint64", "float64"} -> 8

\* Where in its buffer appendValue puts the first byte of the value: at the
\* end of the data and of the padding that align writes.
StartOf(data, offset, val) == Len(Aligned(data, offset, AlignmentOf(val.type)))

\* The elements of a slice: their types and where they start in the
\* encoder's buffer, into which the content is copied at base.
RECURSIVE elemStarts(_, _, _, _, _)
elemStarts(content, offset, vals, order, base) ==
    IF vals = <<>> THEN <<>>
    ELSE <<[type |-> Head(vals).type, at |-> base + StartOf(content, offset, Head(vals))]>>
           \o elemStarts(appendBasic(content, offset, Head(vals), order), offset,
                         Tail(vals), order, base)

\* The values that one appendValue writes, the value itself first: a slice
\* starts with its length and its content follows those 4 bytes.
valueStarts(data, offset, val, order) ==
    <<[type |-> val.type, at |-> StartOf(data, offset, val)]>>
      \o (IF val.type = "slice"
            THEN elemStarts(<<>>, Len(data) + 4, val.v, order,
                            StartOf(data, offset, val) + 4)
            ELSE <<>>)

\* The values that Append writes after data, in the order of the bytes.
RECURSIVE appendStarts(_, _, _)
appendStarts(data, args, order) ==
    IF args = <<>> THEN <<>>
    ELSE valueStarts(data, 0, Head(args), order)
           \o appendStarts(appendValue(data, 0, Head(args), order), Tail(args), order)

\* decoder.align
AlignUp(off, alignment) == off + ((alignment - (off % alignment)) % alignment)

\* The bytes of a fixed-width value of the type code.
Width(code) ==
    CASE code = "y" -> 1
      [] code \in {"n", "q"} -> 2
      [] code \in {"b", "i", "u"} -> 4
      [] code \in {"x", "t", "d"} -> 8

\* readByte, readInt16 ... readUint64: align (readByte does not), check for
\* overrun, take the bytes.
readFixed(data, off, width, order) ==
    LET at == IF width = 1 THEN off ELSE AlignUp(off, width)
    IN IF Len(data) < at + width
         THEN [err |-> "buffer overrun", bytes |-> <<>>, off |-> at]
         ELSE [err |-> "nil", bytes |-> SubSeq(data, at + 1, at + width),
               off |-> at + width]

\* readString and readSignature: the length as a uint32 or a byte, then the
\* bytes and the closing zero byte.
readString(data, off, lenWidth, order) ==
    LET l == readFixed(data, off, lenWidth, order)
        length == IF lenWidth = 1 THEN l.bytes[1]
                  ELSE LET limbs == GetUint(order, l.bytes)
                       IN IF limbs[1] = 0 THEN limbs[2] ELSE Limb
    IN IF l.err # "nil" THEN [err |-> l.err, v |-> <<>>, off |-> l.off]
       ELSE IF Len(data) < l.off + length + 1
              THEN [err |-> "buffer overrun", v |-> <<>>, off |-> l.off]
              ELSE [err |-> "nil", v |-> SubSeq(data, l.off + 1, l.off + length),
                    off |-> l.off + length + 1]

\* The kind of destination that the case of decodeValue for the type code
\* sets (destinations of kind Interface apart).
SetsKind(code) ==
    CASE code = "y" -> "Uint8"
      [] code = "b" -> "Bool"
      [] code = "n" -> "Int16"
      [] code = "q" -> "Uint16"
      [] code = "i" -> "Int32"
      [] code = "u" -> "Uint32"
      [] code = "x" -> "Int64"
      [] code = "t" -> "Uint32"
      [] code = "d" -> "Float64"
      [] code \in {"s", "o", "g"} -> "String"

\* decodeValue for a type code other than 'a' into a destination of the
\* given type: the value is read first, then the destination's kind decides.
decodeBasic(code, type, data, off, order) ==
    LET r == IF code \in {"s", "o"} THEN readString(data, off, 4, order)
             ELSE IF code = "g" THEN readString(data, off, 1, order)
             ELSE LET f == readFixed(data, off, Width(code), order)
                      limbs == GetUint(order, f.bytes)
                  IN [err |-> f.err, off |-> f.off,
                      v |-> IF f.err # "nil" THEN <<>>
                            ELSE CASE code = "y" -> f.bytes[1]
                                   [] code = "b" -> limbs # <<0, 0>>
                                   [] code = "n" -> IF limbs[1] >= Limb \div 2
                                                      THEN limbs[1] - Limb
                                                      ELSE limbs[1]
                                   [] code = "q" -> limbs[1]
                                   [] OTHER -> limbs]
    IN IF r.err # "nil" THEN r
       ELSE IF KindOf(type) # SetsKind(code)
              THEN [err |-> "Could not decode", v |-> <<>>, off |-> r.off]
              ELSE r

\* The loop of decodeValue over the elements of a slice: while dataOffset <
\* arrayEnd, the signature offset goes back to the element's code and an
\* element is decoded and appended.
RECURSIVE decodeElems(_, _, _, _, _, _, _)
decodeElems(code, type, data, off, arrayEnd, order, acc) ==
    IF off >= arrayEnd THEN [err |-> "nil", v |-> acc, off |-> off, some |-> acc # <<>>]
    ELSE LET e == decodeBasic(code, type, data, off, order)
         IN IF e.err # "nil"
              THEN [err |-> e.err, v |-> acc, off |-> e.off, some |-> TRUE]
              ELSE decodeElems(code, type, data, e.off, arrayEnd, order,
                               Append(acc, [type |-> type, v |-> e.v]))

\* decodeValue(v) for a destination like dest: the next code of the
\* signature, and for 'a' the length, the end of the array and the loop; the
\* signature offset stays at the element's code when no element is decoded.
decodeValue(dec, dest, signature, data, order) ==
    IF Len(signature) < dec.sigOffset
      THEN [dec EXCEPT !.err = "signature overrun"]
    ELSE IF Len(signature) = dec.sigOffset
      THEN [dec EXCEPT !.err = "panic: index out of range"]
    ELSE LET code == signature[dec.sigOffset + 1]
             next == dec.sigOffset + 1
         IN IF code # "a"
              THEN LET r == decodeBasic(code, dest.type, data, dec.dataOffset, order)
                   IN [sigOffset |-> next, dataOffset |-> r.off, err |-> r.err,
                       out |-> IF r.err = "nil"
                                 THEN Append(dec.out, [type |-> dest.type, v |-> r.v])
                                 ELSE dec.out]
              ELSE LET l == readFixed(data, dec.dataOffset, 4, order)
                       limbs == GetUint(order, l.bytes)
                       length == IF limbs[1] = 0 THEN limbs[2] ELSE Limb
                       arrayEnd == l.off + length
                   IN IF l.err # "nil"
                        THEN [dec EXCEPT !.sigOffset = next, !.dataOffset = l.off,
                                         !.err = l.err]
                      ELSE IF Len(data) < arrayEnd
                        THEN [dec EXCEPT !.sigOffset = next, !.dataOffset = l.off,
                                         !.err = "buffer overrun"]
                      ELSE IF KindOf(dest.type) # "Slice"
                        THEN [dec EXCEPT !.sigOffset = next, !.dataOffset = l.off,
                                         !.err = "Could not decode"]
                      ELSE IF Len(signature) = next
                        THEN [dec EXCEPT !.sigOffset = next, !.dataOffset = l.off,
                                         !.err = "panic: index out of range"]
                      ELSE LET es == decodeElems(signature[next + 1], dest.elem, data,
                                                 l.off, arrayEnd, order, <<>>)
                           IN [sigOffset |-> IF es.some THEN next + 1 ELSE next,
                               dataOffset |-> es.off, err |-> es.err,
                               out |-> IF es.err = "nil"
                                         THEN Append(dec.out,
                                                [type |-> "slice", elem |-> dest.elem,
                                                 v |-> es.v])
                                         ELSE dec.out]

\* decoder.Decode(args...): decodeValue for each destination until an error.
RECURSIVE Decode(_, _, _, _, _)
Decode(dec, dests, signature, data, order) ==
    IF dests = <<>> \/ dec.err # "nil" THEN dec
    ELSE Decode(decodeValue(dec, Head(dests), signature, data, order), Tail(dests),
                signature, data, order)

newDecoder == [sigOffset |-> 0, dataOffset |-> 0, err |-> "nil", out |-> <<>>]

\* ------------------------------------------------------ handlers by pattern

\* An object path as the sequence of its elements: "/foo/bar" is
\* <<"foo", "bar">>, and "/foo/*" is <<"foo", "*">>.
ch1 == "ch1"
ch2 == "ch2"
ch3 == "ch3"
ch4 == "ch4"

\* The handlers TestGlob registers.
hs ==
    (<<"*">> :> ch1) @@ (<<"foo">> :> ch2) @@ (<<"foo", "*">> :> ch3)
        @@ (<<"foo", "bar", "*">> :> ch4) @@ (<<"*", "baz">> :> "nil")

\* The paths TestGlob looks up.
GlobPaths ==
    {<<"stuff">>, <<"foo">>, <<"foo", "fie">>, <<"foo", "fie", "fum">>,
     <<"foo", "bar">>, <<"foo", "bar", "xy">>, <<"foo", "bar", "x">>,
     <<"foo", "bar", "baz", "quux">>, <<"fie", "baz">>}

\* The pattern made of the first k elements of the path and "*".
GlobOf(path, k) == SubSeq(path, 1, k) \o <<"*">>

\* The handler of the pattern of the longest proper ancestor of the path that
\* has one, trying the ancestors of k elements and fewer.
RECURSIVE handlerForAncestor(_, _, _)
handlerForAncestor(handlers, path, k) ==
    IF k < 0 THEN [ok |-> FALSE, handler |-> "nil"]
    ELSE IF HasHandler(handlers, GlobOf(path, k))
      THEN [ok |-> TRUE, handler |-> handlers[GlobOf(path, k)]]
      ELSE handlerForAncestor(handlers, path, k - 1)

\* p.handlerForPath(path): the handler registered under the path itself,
\* otherwise the handler of the closest pattern above it.
handlerForPath(handlers, path) ==
    IF HasHandler(handlers, path)
      THEN [ok |-> TRUE, handler |-> handlers[path]]
      ELSE handlerForAncestor(handlers, path, Len(path) - 1)

globRest == <<pc, ret, serialVars, callVars, slotVars, sockVars, recvVars, loopVars,
              messageFilters, signalMatchRules, sinkVars, watchVars, callArg,
              filterLog, seen, busVars, handshake, found, codec, removed,
              stream>>

\* delete(hs, path) for a path that is in the table.
Table_Delete(path) ==
    /\ path \in DOMAIN objectPathHandlers
    /\ objectPathHandlers' =
          [p \in DOMAIN objectPathHandlers \ {path} |-> objectPathHandlers[p]]
    /\ lookup' = NotLookedUp
    /\ UNCHANGED globRest

\* ch, ok := bus.handlerForPath(path)
Table_Lookup(path) ==
    /\ lookup' = [path |-> path] @@ handlerForPath(objectPathHandlers, path)
    /\ UNCHANGED <<objectPathHandlers, globRest>>

\* --------------------------------------------------------------- round trip

\* The values that are marshalled: some of every basic type, and slices of
\* them.
BasicValues ==
    {[type |-> "uint8", v |-> 7], [type |-> "uint8", v |-> 255],
     [type |-> "bool", v |-> TRUE], [type |-> "bool", v |-> FALSE],
     [type |-> "int16", v |-> -2], [type |-> "int16", v |-> 258],
     [type |-> "uint16", v |-> 65534],
     [type |-> "int32", v |-> <<65535, 65534>>],
     [type |-> "uint32", v |-> <<258, 772>>],
     [type |-> "int64", v |-> <<65535, 65535, 65535, 65534>>],
     [type |-> "uint64", v |-> <<258, 772, 1286, 1800>>],
     [type |-> "uint64", v |-> <<0, 0, 0, 42>>],
     [type |-> "float64", v |-> <<16393, 8699, 21572, 11544>>],
     [type |-> "string", v |-> <<104, 105>>], [type |-> "string", v |-> <<>>],
     [type |-> "Signature", v |-> <<105>>]}

MaxElems == 2

SliceValues ==
    {[type |-> "slice", elem |-> t, v |-> vs] :
        t \in {"uint8", "int16", "uint32", "uint64", "string"},
        vs \in {<<>>}} \cup
    {[type |-> "slice", elem |-> vs[1].type, v |-> vs] :
        vs \in {s \in UNION {[1..n -> BasicValues] : n \in 1..MaxElems} :
                  \A i \in 1..Len(s) : s[i].type = s[1].type}}

MaxArgs == 2

CodecArgs ==
    {<<v>> : v \in BasicValues \cup SliceValues} \cup
    IF MaxArgs < 2 THEN {}
    ELSE UNION {[1..n -> BasicValues \cup {sl \in SliceValues : Len(sl.v) < 2}] :
                  n \in 2..MaxArgs}

ByteOrders == {"LittleEndian", "BigEndian"}

codecRest == <<pc, ret, serialVars, callVars, slotVars, sockVars, recvVars, loopVars,
               tableVars, sinkVars, watchVars, callArg, filterLog, seen, busVars,
               handshake, found, lookup, removed, stream>>

\* enc.Append(args...) on a new encoder, then Decode of its signature and
\* data into destinations of the types of the arguments; one run is recorded,
\* with the place in the data of each value that was encoded.
Codec_RoundTrip(args, order) ==
    LET enc == Append_([signature |-> <<>>, data |-> <<>>], args, order)
        dec == Decode(newDecoder, args, enc.signature, enc.data, order)
    IN /\ codec = NotRun
       /\ codec' = [args |-> args, order |-> order, signature |-> enc.signature,
                    data |-> enc.data, starts |-> appendStarts(<<>>, args, order),
                    err |-> dec.err, out |-> dec.out]
       /\ UNCHANGED codecRest

\* -------------------------------------------------------------- readMessage

\* header := make([]byte, 16)
HeaderLength == 16

\* The frames a peer sends: the length of the header fields, which the
\* header announces, and the length of the body.
MaxFieldsLength == 9
MaxBodyLength == 3
Frames == [fields : 0..MaxFieldsLength, body : 0..MaxBodyLength]

\* padding := -(len(header) + int(headerFieldsLength)) % 8, the remainder
\* having the sign of the dividend; if padding < 0 { padding += 8 }
Padding(headerFieldsLength) ==
    LET padding == 0 - ((HeaderLength + headerFieldsLength) % 8)
    IN IF padding < 0 THEN padding + 8 ELSE padding

\* The bytes of a frame on the stream.
FrameLength(f) == HeaderLength + f.fields + Padding(f.fields) + f.body

\* No readMessage call has been made.
NotReading == [frame |-> [fields |-> 0, body |-> 0], taken |-> 0, pc |-> "idle",
               err |-> "nil"]

\* n, err := r.Read(buf) on a stream socket that has the bytes of the frame
\* or will have them: Read blocks until some bytes are there and hands over
\* what has arrived, from one byte to len(buf); for an empty buf it is 0.
ReadCounts(length) == IF length = 0 THEN {0} ELSE 1..length

\* What a step of readMessage leaves alone.
streamRest == <<pc, ret, serialVars, callVars, slotVars, sockVars, recvVars, loopVars,
                tableVars, sinkVars, watchVars, callArg, filterLog, seen, busVars,
                handshake, found, lookup, codec, removed>>

\* readMessage(r) is called with the frame on its way.
RM_call(f) ==
    /\ stream.pc = "idle"
    /\ stream' = [stream EXCEPT !.frame = f, !.pc = "header"]
    /\ UNCHANGED streamRest

\* One Read of readMessage into a buffer of the given length: n < len(buf)
\* returns the error of Read or, when that is nil, the one given.
ReadInto(length, err, next) ==
    \E n \in ReadCounts(length) :
        stream' = [stream EXCEPT !.taken = @ + n,
                                 !.err = IF n < length THEN err ELSE @,
                                 !.pc = IF n < length THEN "returned" ELSE next]

\* if n, err := r.Read(header); n < len(header) { ... return nil, err }
RM_header ==
    /\ stream.pc = "header"
    /\ ReadInto(HeaderLength, "Could not read message header", "fields")
    /\ UNCHANGED streamRest

\* headerFields := make([]byte, 16+int(headerFieldsLength)+padding);
\* r.Read(headerFields[16:])
RM_fields ==
    /\ stream.pc = "fields"
    /\ ReadInto(stream.frame.fields + Padding(stream.frame.fields),
                "Could not read message header fields", "body")
    /\ UNCHANGED streamRest

\* msg.body = make([]byte, msgBodyLength); r.Read(msg.body); return msg, nil
RM_body ==
    /\ stream.pc = "body"
    /\ ReadInto(stream.frame.body, "Could not read message body", "returned")
    /\ UNCHANGED streamRest

\* ------------------------------------------------- Connect and Authenticate

\* A line of the handshake is the sequence of its bytes without the closing
\* "\r\n"; what a mechanism computes (hex strings) is one element.
AUTH == <<"A", "U", "T", "H">>
DATA == <<"D", "A", "T", "A">>
OK == <<"O", "K">>
AGREE_UNIX_FD == <<"A", "G", "R", "E", "E", "_", "U", "N", "I", "X", "_", "F", "D">>
REJECTED == <<"R", "E", "J", "E", "C", "T", "E", "D">>
ERROR == <<"E", "R", "R", "O", "R">>
BEGIN == <<"B", "E", "G", "I", "N">>
CANCEL == <<"C", "A", "N", "C", "E", "L">>

\* A prefix test that every line passes.
AnyPrefix(mesg, prefix) == TRUE

\* bytes.HasPrefix(mesg, prefix)
HasPrefix(mesg, prefix) ==
    /\ Len(mesg) >= Len(prefix)
    /\ SubSeq(mesg, 1, Len(prefix)) = prefix

\* What the server may send: the lines of the protocol with and without
\* arguments, a line of no known command, and the empty line that ReadLine
\* yields at the end of the stream.
ServerLines ==
    {OK \o <<" ", "guid">>, AGREE_UNIX_FD, DATA \o <<" ", "hex(challenge)">>, DATA,
     REJECTED \o <<" ", "EXTERNAL">>, ERROR, ERROR \o <<" ", "msg">>,
     <<"N", "O">>, <<>>}

\* Lines read by one run of _Authenticate.
MaxAuthLines == 3

\* What is written to the socket before the first frame: the nul byte of
\* Connect and the lines of _Authenticate.
NulByte == [part |-> "nul", text |-> <<>>]
Line(text) == [part |-> "line", text |-> text]

\* A socket on which what is written last comes out first.
WriteAhead(w, entries) == entries \o w

\* p.conn.Write for each of the entries, in order.
SockWrite(w, entries) == w \o entries

Unconnected == [in |-> <<>>, err |-> "nil", ret |-> "none", hungUp |-> FALSE]

\* The goroutine that connects.
Dialer == "u1"

\* Connect: net.Dial; bus.conn.Write([]byte{0}); when either fails Connect
\* returns no connection.
Connect ==
    /\ pc[Dialer] = "connect"
    /\ \/ /\ wire' = SockWrite(wire, <<NulByte>>)
          /\ pc' = [pc EXCEPT ![Dialer] = "connected"]
          /\ UNCHANGED handshake
       \/ /\ handshake' = [handshake EXCEPT !.ret = "connect error"]
          /\ pc' = [pc EXCEPT ![Dialer] = "failed"]
          /\ UNCHANGED wire
    /\ UNCHANGED <<callArg, filterLog, seen, busVars, found, probeVars, ret, serialVars,
                   callVars, slotVars, connClosed, recvVars, loopVars, tableVars,
                   sinkVars, watchVars>>

\* Authenticate calls _Authenticate(new(AuthDbusCookieSha1)): msg = "AUTH",
\* mechanism and initial response joined by spaces; _, err :=
\* p.conn.Write(msg + "\r\n"), whose error, if any, is kept in err.
Auth_write ==
    /\ pc[Dialer] = "connected"
    /\ \E e \in {"nil", "write error"} :
        handshake' = [handshake EXCEPT !.err = e]
    /\ wire' = SockWrite(wire, <<Line(AUTH \o <<" ", "DBUS_COOKIE_SHA1", " ",
                                                "hex(user)">>)>>)
    /\ pc' = [pc EXCEPT ![Dialer] = "auth_read"]
    /\ UNCHANGED <<callArg, filterLog, seen, busVars, found, probeVars, ret, serialVars,
                   callVars, slotVars, connClosed, recvVars, loopVars, tableVars,
                   sinkVars, watchVars>>

\* _Authenticate returns r to Authenticate: on an error Authenticate returns
\* it; on nil it goes on to start the run loop.
AuthReturn(r) ==
    IF r = "nil"
      THEN pc' = [pc EXCEPT ![Dialer] = "auth_go"]
      ELSE pc' = [pc EXCEPT ![Dialer] = "failed"]

\* One turn of the loop of _Authenticate: mesg, _, _ := inStream.ReadLine()
\* and the switch on its prefix.  ProcessData of the mechanism answers the
\* challenge or fails; when it fails CANCEL is written and then the nil
\* response, an empty line.
Auth_read ==
    /\ pc[Dialer] = "auth_read"
    /\ ~handshake.hungUp
    /\ Len(handshake.in) < MaxAuthLines
    /\ \E mesg \in ServerLines :
        LET read == [handshake EXCEPT !.in = Append(@, mesg)]
        IN CASE HasPrefix(mesg, DATA) ->
                  \E e \in {"nil", "ProcessData error"} :
                      /\ handshake' = [read EXCEPT !.err = e]
                      /\ wire' = SockWrite(wire,
                                   IF e = "nil"
                                     THEN <<Line(DATA \o <<" ", "hex(resp)">>)>>
                                     ELSE <<Line(CANCEL), Line(<<>>)>>)
                      /\ UNCHANGED pc
             [] HasPrefix(mesg, OK) \/ HasPrefix(mesg, AGREE_UNIX_FD) ->
                  /\ wire' = SockWrite(wire, <<Line(BEGIN)>>)
                  /\ handshake' = [read EXCEPT !.ret = "nil"]
                  /\ AuthReturn("nil")
             [] HasPrefix(mesg, REJECTED) ->
                  /\ handshake' = [read EXCEPT !.ret = IF handshake.err # "nil"
                                                         THEN handshake.err
                                                         ELSE "Rejected"]
                  /\ AuthReturn("error")
                  /\ UNCHANGED wire
             [] HasPrefix(mesg, ERROR) ->
                  /\ handshake' = [read EXCEPT !.ret = "Error"]
                  /\ AuthReturn("error")
                  /\ UNCHANGED wire
             [] OTHER ->
                  /\ wire' = SockWrite(wire, <<Line(ERROR)>>)
                  /\ handshake' = read
                  /\ UNCHANGED pc
    /\ UNCHANGED <<callArg, filterLog, seen, busVars, found, probeVars, ret, serialVars,
                   callVars, slotVars, connClosed, recvVars, loopVars, tableVars,
                   sinkVars, watchVars>>

\* The server closes the connection while the client is in the handshake:
\* from then on no line arrives.
ServerCloses ==
    /\ pc[Dialer] \in {"connected", "auth_read"}
    /\ ~handshake.hungUp
    /\ handshake' = [handshake EXCEPT !.hungUp = TRUE]
    /\ UNCHANGED <<pc, wire, callArg, filterLog, seen, busVars, found, probeVars, ret,
                   serialVars, callVars, slotVars, connClosed, recvVars, loopVars,
                   tableVars, sinkVars, watchVars>>

\* mesg, _, _ := inStream.ReadLine() at the end of the stream: mesg is empty
\* and the error, io.EOF, is dropped; no case of the switch but default
\* matches the empty line.
Auth_readAtEnd ==
    /\ pc[Dialer] = "auth_read"
    /\ handshake.hungUp
    /\ pc' = [pc EXCEPT ![Dialer] = "auth_default"]
    /\ UNCHANGED <<handshake, wire, callArg, filterLog, seen, busVars, found, probeVars,
                   ret, serialVars, callVars, slotVars, connClosed, recvVars, loopVars,
                   tableVars, sinkVars, watchVars>>

\* default: p.conn.Write([]byte("ERROR\r\n")) on the connection the server
\* has closed: nothing reaches the server, the error of Write is dropped, and
\* the loop goes round.
Auth_default ==
    /\ pc[Dialer] = "auth_default"
    /\ pc' = [pc EXCEPT ![Dialer] = "auth_read"]
    /\ UNCHANGED <<handshake, wire, callArg, filterLog, seen, busVars, found, probeVars,
                   ret, serialVars, callVars, slotVars, connClosed, recvVars, loopVars,
                   tableVars, sinkVars, watchVars>>

\* MessageBus.Hello(): the call message.
HelloCall ==
    NewMethodCallMessage(BUS_DAEMON_NAME, BUS_DAEMON_PATH, BUS_DAEMON_IFACE, "Hello")

\* Authenticate: go p._RunLoop(), which starts the receiver, and then
\* p.UniqueName, err = p.busProxy.Hello()
Auth_go ==
    /\ pc[Dialer] = "auth_go"
    /\ recvPc = "unstarted"
    /\ recvPc' = "read"
    /\ outMsg' = [outMsg EXCEPT ![Dialer] = HelloCall]
    /\ Invoke(Dialer, "swr_serial", "auth_hello")
    /\ UNCHANGED <<extVars, serialVars, serialOf, reply, result, late, slotVars,
                   sockVars, rx, msgChanClosed, loopVars, tableVars, sinkVars,
                   watchVars>>

\* Authenticate: Hello returned; return.
Auth_hello ==
    /\ pc[Dialer] = "auth_hello"
    /\ pc' = [pc EXCEPT ![Dialer] = "idle"]
    /\ UNCHANGED <<extVars, ret, serialVars, callVars, slotVars, sockVars, recvVars,
                   loopVars, tableVars, sinkVars, watchVars>>

\* ------------------------------------------------------------------ BusName

\* The unique name of this connection on the bus.
OurName == ":1.9"

\* The values that travel on name.C: nil and the four errors of the package,
\* and the error made for a reply outside the protocol.
Ok == "nil"
ErrNameLost == "name ownership lost"
ErrNameInQueue == "in queue for name ownership"
ErrNameExists == "name exists"
ErrNameAlreadyOwned == "name already owned"
ErrUnknown == "Unknown error"

\* The flag sets RequestName is called with: 0, NameFlagAllowReplacement and
\* NameFlagDoNotQueue.
NameFlags == {{}, {"AllowReplacement"}, {"DoNotQueue"}}

\* The BusName before RequestName has made it, and as RequestName makes it:
\* C is the contents of the channel make(chan error, 1), closed says that
\* close(name.C) has happened, lostWatch and acquiredWatch say that the field
\* is not nil.
NoBusName ==
    [Flags |-> {}, C |-> <<>>, closed |-> FALSE, cancelled |-> FALSE,
     needsRelease |-> FALSE, lostWatch |-> FALSE, acquiredWatch |-> FALSE]

\* A SignalWatch of the BusName before WatchSignal has returned it:
\* signalWatch says that the field is not nil, cancelled is
\* signalWatch.cancelled, closed says that close(watch.C) has happened.
NoBusWatch == [signalWatch |-> FALSE, cancelled |-> FALSE, closed |-> FALSE]

\* The argument of release(needsRelease) and the value a goroutine is about
\* to send on name.C.
NoFrame == [needsRelease |-> FALSE, value |-> ""]

\* The goroutine that ranges over the channel of a watch, and the watch a
\* goroutine ranges over.
GoroutineOf(w) == IF w = "lw" THEN "lg" ELSE "ag"
WatchOf(g) == IF g = "lg" THEN "lw" ELSE "aw"

\* SignalWatch.lock and signalWatch.cancelLock of a watch of the BusName.
WatchLock(w) == IF w = "lw" THEN "lw.lock" ELSE "aw.lock"
WatchCancelLock(w) == IF w = "lw" THEN "lw.cancelLock" ELSE "aw.cancelLock"

\* What the BusName layer never touches.
busRest == <<callArg, filterLog, seen, watchState, nameVars, ghostVars,
             messageFilters, objectPathHandlers, sinkVars, late, stageVars>>

\* The connection state a step of the BusName layer leaves alone unless it
\* starts a call.
connIO == <<serialVars, slotVars, sockVars, recvVars, loopVars>>

\* ------------------------------------------------------------ the bus daemon

\* The daemon's view of the bus name: its owner ("" for none), whether this
\* connection waits in the name's queue, how many entries of our outbound
\* stream it has served, the messages it has sent us that we have not read
\* yet, and how many times the peer has taken or released the name.
DaemonWith(o) ==
    [owner |-> o, queued |-> FALSE, served |-> 0, out |-> <<>>, events |-> 0]

\* Changes of ownership the peer causes over the run.
MaxOwnerEvents == 2

\* The daemon's NameAcquired and NameLost signals to this connection.
BusSignal(member) ==
    [NewSignalMessage(BUS_DAEMON_PATH, BUS_DAEMON_IFACE, member)
        EXCEPT !.serial = PeerSerial, !.Sender = BUS_DAEMON_NAME]

\* The daemon handles RequestName(name, flags) of this connection: the new
\* owner, the new queue membership, and what it sends.  The reply codes are
\* 1 PRIMARY_OWNER, 2 IN_QUEUE, 3 EXISTS and 4 ALREADY_OWNER (5 stands for a
\* value outside the protocol); NameAcquired goes out before the reply that
\* says PRIMARY_OWNER.
ServeRequestName(d, s, flags) ==
    IF d.owner = ""
      THEN [d EXCEPT !.owner = OurName,
                     !.out = @ \o <<BusSignal("NameAcquired"),
                                    DaemonReply(s, "method_return", "1")>>]
    ELSE IF d.owner = OurName
      THEN [d EXCEPT !.out = Append(@, DaemonReply(s, "method_return", "4"))]
    ELSE IF "DoNotQueue" \in flags
      THEN [d EXCEPT !.out = Append(@, DaemonReply(s, "method_return", "3"))]
    ELSE [d EXCEPT !.queued = TRUE,
                   !.out = Append(@, DaemonReply(s, "method_return", "2"))]

\* The daemon handles ReleaseName(name) of this connection: 1 RELEASED (with
\* NameLost to the owner that lets go), 2 NON_EXISTENT, 3 NOT_OWNER.
ServeReleaseName(d, s) ==
    IF d.owner = OurName
      THEN [d EXCEPT !.owner = "",
                     !.out = @ \o <<BusSignal("NameLost"),
                                    DaemonReply(s, "method_return", "1")>>]
    ELSE IF d.queued
      THEN [d EXCEPT !.queued = FALSE,
                     !.out = Append(@, DaemonReply(s, "method_return", "1"))]
    ELSE [d EXCEPT !.out = Append(@, DaemonReply(s, "method_return",
                                       IF d.owner = "" THEN "2" ELSE "3"))]

\* The daemon reads the next message this connection wrote and answers it.
\* AddMatch and RemoveMatch succeed; RequestName may also be answered with a
\* value outside the protocol.
DaemonServe ==
    /\ daemon.served < Len(wire)
    /\ LET c == wire[daemon.served + 1]
           d == [daemon EXCEPT !.served = @ + 1]
       IN CASE c.member = "RequestName" ->
                 \/ daemon' = ServeRequestName(d, c.serial, busName.Flags)
                 \/ daemon' = [d EXCEPT !.out =
                                 Append(@, DaemonReply(c.serial, "method_return", "5"))]
            [] c.member = "ReleaseName" ->
                 daemon' = ServeReleaseName(d, c.serial)
            [] OTHER ->
                 daemon' = [d EXCEPT !.out =
                              Append(@, DaemonReply(c.serial, "method_return", ""))]
    /\ UNCHANGED <<pc, ret, callVars, connIO, tableVars, sinkVars, watchVars,
                   callArg, filterLog, seen, busName, busWatch, frame, nameLog,
                   stageVars>>

\* The peer lets go of the name: the head of the queue becomes the owner and
\* is told so with NameAcquired.
PeerReleasesName ==
    /\ daemon.owner = PeerName
    /\ daemon.events < MaxOwnerEvents
    /\ daemon' = IF daemon.queued
                   THEN [daemon EXCEPT !.owner = OurName, !.queued = FALSE,
                                       !.events = @ + 1,
                                       !.out = Append(@, BusSignal("NameAcquired"))]
                   ELSE [daemon EXCEPT !.owner = "", !.events = @ + 1]
    /\ UNCHANGED <<pc, ret, callVars, connIO, tableVars, sinkVars, watchVars,
                   callArg, filterLog, seen, busName, busWatch, frame, nameLog,
                   stageVars>>

\* The peer requests the name with NameFlagReplaceExisting: it gets a name
\* nobody owns, and it takes the name from this connection when this
\* connection asked for it with NameFlagAllowReplacement; the old owner is
\* told with NameLost and goes to the queue.
PeerTakesName ==
    /\ daemon.events < MaxOwnerEvents
    /\ \/ /\ daemon.owner = ""
          /\ daemon' = [daemon EXCEPT !.owner = PeerName, !.events = @ + 1]
       \/ /\ daemon.owner = OurName
          /\ "AllowReplacement" \in busName.Flags
          /\ daemon' = [daemon EXCEPT !.owner = PeerName, !.queued = TRUE,
                                      !.events = @ + 1,
                                      !.out = Append(@, BusSignal("NameLost"))]
    /\ UNCHANGED <<pc, ret, callVars, connIO, tableVars, sinkVars, watchVars,
                   callArg, filterLog, seen, busName, busWatch, frame, nameLog,
                   stageVars>>

\* _MessageReceiver: readMessage returns the next message the daemon sent.
RecvFromDaemon ==
    /\ recvPc = "read"
    /\ ~connClosed
    /\ daemon.out # <<>>
    /\ rx' = Append(rx, Head(daemon.out))
    /\ daemon' = [daemon EXCEPT !.out = Tail(@)]
    /\ recvPc' = "send"
    /\ UNCHANGED <<pc, ret, serialVars, callVars, slotVars, sockVars, msgChanClosed,
                   loopVars, tableVars, sinkVars, watchVars, callArg, filterLog,
                   seen, busName, busWatch, frame, nameLog, stageVars>>

\* ------------------------------------------------------ Connection.RequestName

RequestNameCall ==
    NewMethodCallMessage(BUS_DAEMON_NAME, BUS_DAEMON_PATH, BUS_DAEMON_IFACE,
                         "RequestName")

ReleaseNameCall ==
    NewMethodCallMessage(BUS_DAEMON_NAME, BUS_DAEMON_PATH, BUS_DAEMON_IFACE,
                         "ReleaseName")

\* User code calls RequestName(busName, flags): the BusName is made with
\* C: make(chan error, 1), `go name.request()` starts the request goroutine
\* and the BusName is returned at once.
UserRequestName(g) ==
    /\ pc[g] = "idle"
    /\ pc["rq"] = "unborn"
    /\ \E f \in NameFlags : busName' = [NoBusName EXCEPT !.Flags = f]
    /\ pc' = [pc EXCEPT !["rq"] = "rq_lock"]
    /\ UNCHANGED <<ret, callVars, connIO, signalMatchRules, mutex, busRest,
                   busWatch, frame, nameLog, daemon>>

\* request: name.lock.Lock(); defer name.lock.Unlock(); if name.cancelled
\* { return }
RQ_lock ==
    /\ pc["rq"] = "rq_lock"
    /\ Free("name.lock")
    /\ IF busName.cancelled
         THEN /\ pc' = [pc EXCEPT !["rq"] = "done"]
              /\ UNCHANGED mutex
         ELSE /\ pc' = [pc EXCEPT !["rq"] = "rq_watch_lw"]
              /\ Acquire("name.lock", "rq")
    /\ UNCHANGED <<ret, callVars, connIO, signalMatchRules, busRest, busName,
                   busWatch, frame, nameLog, daemon>>

\* request calls WatchSignal for NameLost (w = lw) and then for NameAcquired
\* (w = aw).  WatchSignal: watch.lock.Lock(); the rule's sender is the
\* daemon, so no name watch is made; watchSignal adds the watch to the set
\* under handlerMutex and calls AddMatch on the daemon.
BN_WatchSignal(w) ==
    /\ pc["rq"] = IF w = "lw" THEN "rq_watch_lw" ELSE "rq_watch_aw"
    /\ Free(WatchLock(w))
    /\ Acquire(WatchLock(w), "rq")
    /\ signalMatchRules' = SetAdd(signalMatchRules, w)
    /\ outMsg' = [outMsg EXCEPT !["rq"] = AddMatchCall(w)]
    /\ Invoke("rq", "swr_serial", IF w = "lw" THEN "rq_added_lw" ELSE "rq_added_aw")
    /\ UNCHANGED <<serialOf, reply, result, connIO, busRest, busName, busWatch,
                   frame, nameLog, daemon>>

\* watchSignal: AddMatch returned.  An error: the watch is removed from the
\* set, WatchSignal returns the error (its deferred unlock runs) and request
\* calls name.Release().  Otherwise watch.signalWatch = internal, the watch
\* is stored in the BusName and a goroutine is started that ranges over its
\* channel; after lw comes aw, after aw the RequestName call on the daemon.
BN_afterAddMatch(w) ==
    /\ pc["rq"] = IF w = "lw" THEN "rq_added_lw" ELSE "rq_added_aw"
    /\ Release({WatchLock(w)})
    /\ IF reply["rq"].Type = "error"
         THEN /\ signalMatchRules' = SetRemove(signalMatchRules, w)
              /\ Invoke("rq", "rel_lock", "rq_return")
              /\ UNCHANGED <<busName, busWatch, outMsg>>
         ELSE /\ busWatch' = [busWatch EXCEPT ![w].signalWatch = TRUE]
              /\ busName' = IF w = "lw" THEN [busName EXCEPT !.lostWatch = TRUE]
                            ELSE [busName EXCEPT !.acquiredWatch = TRUE]
              /\ IF w = "lw"
                   THEN /\ pc' = [pc EXCEPT !["rq"] = "rq_watch_aw", !["lg"] = "range"]
                        /\ UNCHANGED <<ret, outMsg>>
                   ELSE /\ outMsg' = [outMsg EXCEPT !["rq"] = RequestNameCall]
                        /\ pc' = [pc EXCEPT !["rq"] = "swr_serial", !["ag"] = "range"]
                        /\ ret' = [ret EXCEPT !["rq"] = <<"rq_switch">> \o @]
              /\ UNCHANGED signalMatchRules
    /\ serialOf' = [serialOf EXCEPT !["rq"] = NoSerial]
    /\ reply' = [reply EXCEPT !["rq"] = NoMsg]
    /\ UNCHANGED <<result, connIO, busRest, frame, nameLog, daemon>>

\* case 1 and case 2 of the switch: name.needsRelease = true
MarksNeedsRelease(r) == r \in {"1", "2"}

\* A switch that sends nil on name.C when the reply says PRIMARY_OWNER.
SendsAlways(r) == TRUE

\* The cases of the switch that send on name.C: all but case 1.
SendsOnReply(r) == r # "1"

\* The value the switch sends on name.C for the reply r.
EventFor(r) ==
    CASE r = "1" -> Ok
      [] r = "2" -> ErrNameInQueue
      [] r = "3" -> ErrNameExists
      [] r = "4" -> ErrNameAlreadyOwned
      [] OTHER -> ErrUnknown

\* request: RequestName returned.  An error: it is logged and request
\* returns.  Otherwise switch result: the mark is set for 1 and 2; case 1
\* sends nothing and request returns, every other case goes on to send its
\* value on name.C.
RQ_switch ==
    /\ pc["rq"] = "rq_switch"
    /\ LET r == reply["rq"].Arg
       IN IF reply["rq"].Type = "error"
            THEN /\ Release({"name.lock"})
                 /\ pc' = [pc EXCEPT !["rq"] = "done"]
                 /\ UNCHANGED <<busName, frame, nameLog>>
            ELSE /\ busName' = [busName EXCEPT !.needsRelease =
                                  IF MarksNeedsRelease(r) THEN TRUE ELSE @]
                 /\ frame' = [frame EXCEPT !["rq"] = [needsRelease |-> FALSE,
                                                      value |-> EventFor(r)]]
                 /\ nameLog' = [nameLog EXCEPT !.replies = Append(@, r)]
                 /\ IF SendsOnReply(r)
                      THEN /\ pc' = [pc EXCEPT !["rq"] = "rq_send"]
                           /\ UNCHANGED mutex
                      ELSE /\ pc' = [pc EXCEPT !["rq"] = "done"]
                           /\ Release({"name.lock"})
    /\ serialOf' = [serialOf EXCEPT !["rq"] = NoSerial]
    /\ reply' = [reply EXCEPT !["rq"] = NoMsg]
    /\ UNCHANGED <<ret, outMsg, result, connIO, signalMatchRules, busRest,
                   busWatch, daemon>>

\* The capacity of name.C.
NameChanCap == 1

\* name.C <- v can go ahead: the channel has room, or it is closed and the
\* send panics.
CanSendOnC == busName.closed \/ Len(busName.C) < NameChanCap

\* name.C <- v by goroutine g on the open channel.
SendOnC(g, v) ==
    /\ busName' = [busName EXCEPT !.C = Append(@, v)]
    /\ nameLog' = [nameLog EXCEPT !.sent = Append(@, [by |-> g, value |-> v])]

\* request, cases 2 to 4 and default: name.C <- err; after ErrNameInQueue
\* request returns, after the others it calls name.release(false).
RQ_send ==
    /\ pc["rq"] = "rq_send"
    /\ CanSendOnC
    /\ IF busName.closed
         THEN /\ Panic("rq", "send on closed channel")
              /\ UNCHANGED <<ret, mutex, busName, nameLog>>
         ELSE /\ SendOnC("rq", frame["rq"].value)
              /\ IF frame["rq"].value = ErrNameInQueue
                   THEN /\ pc' = [pc EXCEPT !["rq"] = "done"]
                        /\ Release({"name.lock"})
                        /\ UNCHANGED ret
                   ELSE /\ Invoke("rq", "rls_body", "rq_return")
                        /\ UNCHANGED mutex
              /\ UNCHANGED panics
    /\ UNCHANGED <<callVars, connIO, signalMatchRules, busWatch, frame, daemon,
                   callArg, filterLog, seen, watchState, nameVars, cancelRets,
                   countVars, raceVars, messageFilters, objectPathHandlers,
                   sinkVars, stageVars>>

\* request or the NameLost goroutine returns: the deferred
\* name.lock.Unlock() runs and the goroutine ends.
BN_return(g) ==
    /\ pc[g] = "rq_return"
    /\ Release({"name.lock"})
    /\ pc' = [pc EXCEPT ![g] = "done"]
    /\ UNCHANGED <<ret, callVars, connIO, signalMatchRules, busRest, busName,
                   busWatch, frame, nameLog, daemon>>

\* ------------------------------------------- the goroutines request() starts

\* for _ = range watch.C ends: the channel has been closed.
BN_rangeEnd(g) ==
    /\ pc[g] = "range"
    /\ busWatch[WatchOf(g)].closed
    /\ pc' = [pc EXCEPT ![g] = "done"]
    /\ UNCHANGED <<ret, callVars, connIO, signalMatchRules, mutex, busRest,
                   busName, busWatch, frame, nameLog, daemon>>

\* The run loop calls the handler of a watch of the BusName: watch.C <- msg
\* on the unbuffered channel meets the range of the watch's goroutine; the
\* loop stands here until that goroutine receives, and a send on the closed
\* channel panics.  The NameLost goroutine goes on to name.lock.Lock(), the
\* NameAcquired goroutine to name.C <- nil.
DeliverBusSignal ==
    /\ pc[Loop] = "deliver"
    /\ NextWatch(loopMatches) \in BusWatches
    /\ LET w == NextWatch(loopMatches)
           g == GoroutineOf(w)
       IN IF busWatch[w].closed
            THEN /\ Panic(Loop, "send on closed channel")
                 /\ UNCHANGED <<loopMatches, frame>>
            ELSE /\ pc[g] = "range"
                 /\ loopMatches' = RestWatches(loopMatches)
                 /\ pc' = [pc EXCEPT ![Loop] = IF loopMatches' = <<>> THEN "recv"
                                               ELSE "deliver",
                                     ![g] = IF g = "lg" THEN "lg_lock" ELSE "ag_send"]
                 /\ frame' = [frame EXCEPT ![g] = [needsRelease |-> FALSE,
                                 value |-> IF g = "lg" THEN ErrNameLost ELSE Ok]]
                 /\ UNCHANGED panics
    /\ UNCHANGED <<ret, callVars, serialVars, slotVars, sockVars, recvVars, loopMsg,
                   signalMatchRules, mutex, busName, busWatch, nameLog, daemon,
                   callArg, filterLog, seen, watchState, nameVars, cancelRets,
                   countVars, raceVars, messageFilters, objectPathHandlers,
                   sinkVars, stageVars>>

\* The NameLost goroutine: name.lock.Lock(); defer name.lock.Unlock()
LG_lock ==
    /\ pc["lg"] = "lg_lock"
    /\ Free("name.lock")
    /\ Acquire("name.lock", "lg")
    /\ pc' = [pc EXCEPT !["lg"] = "lg_send"]
    /\ UNCHANGED <<ret, callVars, connIO, signalMatchRules, busRest, busName,
                   busWatch, frame, nameLog, daemon>>

\* The NameLost goroutine: name.C <- ErrNameLost; name.release(false); break
LG_send ==
    /\ pc["lg"] = "lg_send"
    /\ CanSendOnC
    /\ IF busName.closed
         THEN /\ Panic("lg", "send on closed channel")
              /\ UNCHANGED <<ret, busName, nameLog>>
         ELSE /\ SendOnC("lg", frame["lg"].value)
              /\ Invoke("lg", "rls_body", "rq_return")
              /\ UNCHANGED panics
    /\ UNCHANGED <<callVars, connIO, signalMatchRules, mutex, busWatch, frame,
                   daemon, callArg, filterLog, seen, watchState, nameVars,
                   cancelRets, countVars, raceVars, messageFilters,
                   objectPathHandlers, sinkVars, stageVars>>

\* The NameAcquired goroutine: name.C <- nil, and back to the range.
AG_send ==
    /\ pc["ag"] = "ag_send"
    /\ CanSendOnC
    /\ IF busName.closed
         THEN /\ Panic("ag", "send on closed channel")
              /\ UNCHANGED <<busName, nameLog>>
         ELSE /\ SendOnC("ag", frame["ag"].value)
              /\ pc' = [pc EXCEPT !["ag"] = "range"]
              /\ UNCHANGED panics
    /\ UNCHANGED <<ret, callVars, connIO, signalMatchRules, mutex, busWatch, frame,
                   daemon, callArg, filterLog, seen, watchState, nameVars,
                   cancelRets, countVars, raceVars, messageFilters,
                   objectPathHandlers, sinkVars, stageVars>>

\* User code receives from name.C.
ConsumeBusName ==
    /\ busName.C # <<>>
    /\ busName' = [busName EXCEPT !.C = Tail(@)]
    /\ UNCHANGED <<pc, ret, callVars, connIO, signalMatchRules, mutex, busRest,
                   busWatch, frame, nameLog, daemon>>

\* ------------------------------------------------ BusName.Release, release

\* Release calls user code makes over the run.
MaxReleases == 2

\* g is inside a call of BusName.Release.
InRelease(g) ==
    \/ pc[g] = "rel_lock"
    \/ \E i \in DOMAIN ret[g] : ret[g][i] = "rel_end"

\* User code calls name.Release() on the BusName RequestName returned.
UserRelease(g) ==
    /\ pc[g] = "idle"
    /\ pc["rq"] # "unborn"
    /\ Len(nameLog.rets) + Cardinality({h \in Users : InRelease(h)}) < MaxReleases
    /\ result' = [result EXCEPT ![g] = "none"]
    /\ Invoke(g, "rel_lock", "idle")
    /\ UNCHANGED <<serialOf, outMsg, reply, connIO, signalMatchRules, mutex, busRest,
                   busName, busWatch, frame, nameLog, daemon>>

\* Release: name.lock.Lock(); defer name.lock.Unlock();
\* return name.release(name.needsRelease)
REL_lock(g) ==
    /\ pc[g] = "rel_lock"
    /\ Free("name.lock")
    /\ Acquire("name.lock", g)
    /\ frame' = [frame EXCEPT ![g].needsRelease = busName.needsRelease]
    /\ Invoke(g, "rls_body", "rel_end")
    /\ UNCHANGED <<callVars, connIO, signalMatchRules, busRest, busName, busWatch,
                   nameLog, daemon>>

\* Release returns what release returned; the deferred unlock runs.
REL_end(g) ==
    /\ pc[g] = "rel_end"
    /\ Release({"name.lock"})
    /\ nameLog' = [nameLog EXCEPT !.rets = Append(@, result[g])]
    /\ Return(g)
    /\ UNCHANGED <<callVars, connIO, signalMatchRules, busRest, busName, busWatch,
                   frame, daemon>>

\* release: if name.cancelled { return nil }; name.cancelled = true, and on
\* to the two watches.
RLS_body(g) ==
    /\ pc[g] = "rls_body"
    /\ IF busName.cancelled
         THEN /\ ReturnWith(g, "nil")
              /\ UNCHANGED busName
         ELSE /\ busName' = [busName EXCEPT !.cancelled = TRUE]
              /\ pc' = [pc EXCEPT ![g] = "rls_aw"]
              /\ UNCHANGED <<ret, result>>
    /\ UNCHANGED <<serialOf, outMsg, reply, connIO, signalMatchRules, mutex, busRest,
                   busWatch, frame, nameLog, daemon>>

\* Where release is while it cancels watch w, and where it goes next.
CancelLabel(w) == IF w = "aw" THEN "rls_aw" ELSE "rls_lw"
AfterRemoveLabel(w) == IF w = "aw" THEN "rls_aw_removed" ELSE "rls_lw_removed"
AfterCancel(w) == IF w = "aw" THEN "rls_lw" ELSE "rls_close"

\* name.acquiredWatch and name.lostWatch, as "is not nil".
WatchField(w) == IF w = "aw" THEN busName.acquiredWatch ELSE busName.lostWatch

\* A Cancel that leaves watch.C open.
LeftOpen(bw) == [bw EXCEPT !.signalWatch = FALSE]

\* SignalWatch.Cancel after internal.cancel() returned nil:
\* watch.signalWatch = nil; close(watch.C)
Closed(bw) == [bw EXCEPT !.signalWatch = FALSE, !.closed = TRUE]

\* release: if the watch is not nil, watch.Cancel().  Cancel takes
\* watch.lock and returns nil when watch.signalWatch is nil; the watch has no
\* name watch; internal.cancel() takes cancelLock, returns nil when already
\* cancelled, removes the watch from the set under handlerMutex and, when it
\* was there, calls RemoveMatch on the daemon with both locks held.
RLS_cancel(g, w) ==
    /\ pc[g] = CancelLabel(w)
    /\ IF ~WatchField(w) \/ ~busWatch[w].signalWatch
         THEN /\ WatchField(w) => Free(WatchLock(w))
              /\ pc' = [pc EXCEPT ![g] = AfterCancel(w)]
              /\ UNCHANGED <<ret, outMsg, mutex, signalMatchRules, busWatch>>
         ELSE /\ Free(WatchLock(w)) /\ Free(WatchCancelLock(w))
              /\ IF busWatch[w].cancelled
                   THEN /\ busWatch' = [busWatch EXCEPT ![w] = Closed(@)]
                        /\ pc' = [pc EXCEPT ![g] = AfterCancel(w)]
                        /\ UNCHANGED <<ret, outMsg, mutex, signalMatchRules>>
                   ELSE /\ signalMatchRules' = SetRemove(signalMatchRules, w)
                        /\ IF w \in InSet(signalMatchRules)
                             THEN /\ mutex' = [mutex EXCEPT ![WatchLock(w)] = g,
                                                            ![WatchCancelLock(w)] = g]
                                  /\ outMsg' = [outMsg EXCEPT ![g] = RemoveMatchCall(w)]
                                  /\ Invoke(g, "swr_serial", AfterRemoveLabel(w))
                                  /\ UNCHANGED busWatch
                             ELSE /\ busWatch' = [busWatch EXCEPT ![w] =
                                                    Closed([@ EXCEPT !.cancelled = TRUE])]
                                  /\ pc' = [pc EXCEPT ![g] = AfterCancel(w)]
                                  /\ UNCHANGED <<ret, outMsg, mutex>>
    /\ UNCHANGED <<serialOf, reply, result, connIO, busRest, busName, frame,
                   nameLog, daemon>>

\* cancel: RemoveMatch returned.  An error goes up through cancel, Cancel and
\* release, whose deferred unlocks run.  Otherwise watch.cancelled = true,
\* and Cancel sets watch.signalWatch = nil and closes watch.C.
RLS_afterRemoveMatch(g, w) ==
    /\ pc[g] = AfterRemoveLabel(w)
    /\ Release({WatchLock(w), WatchCancelLock(w)})
    /\ IF reply[g].Type = "error"
         THEN /\ ReturnWith(g, "RemoveMatch error")
              /\ UNCHANGED busWatch
         ELSE /\ busWatch' = [busWatch EXCEPT ![w] = Closed([@ EXCEPT !.cancelled = TRUE])]
              /\ pc' = [pc EXCEPT ![g] = AfterCancel(w)]
              /\ UNCHANGED <<ret, result>>
    /\ serialOf' = [serialOf EXCEPT ![g] = NoSerial]
    /\ reply' = [reply EXCEPT ![g] = NoMsg]
    /\ UNCHANGED <<outMsg, connIO, signalMatchRules, busRest, busName, frame,
                   nameLog, daemon>>

\* if needsRelease { ... }
CallsReleaseName(needsRelease) == needsRelease

\* release: close(name.C); if needsRelease, call ReleaseName on the daemon;
\* otherwise return nil.
RLS_close(g) ==
    /\ pc[g] = "rls_close"
    /\ busName' = [busName EXCEPT !.closed = TRUE]
    /\ IF CallsReleaseName(frame[g].needsRelease)
         THEN /\ outMsg' = [outMsg EXCEPT ![g] = ReleaseNameCall]
              /\ Invoke(g, "swr_serial", "rls_released")
              /\ UNCHANGED result
         ELSE /\ ReturnWith(g, "nil")
              /\ UNCHANGED outMsg
    /\ UNCHANGED <<serialOf, reply, connIO, signalMatchRules, mutex, busRest,
                   busWatch, frame, nameLog, daemon>>

\* release: ReleaseName returned: if err != nil { return err }; an unexpected
\* result is logged; name.needsRelease = false; return nil
RLS_afterReleaseName(g) ==
    /\ pc[g] = "rls_released"
    /\ IF reply[g].Type = "error"
         THEN /\ ReturnWith(g, "ReleaseName error")
              /\ UNCHANGED busName
         ELSE /\ busName' = [busName EXCEPT !.needsRelease = FALSE]
              /\ ReturnWith(g, "nil")
    /\ serialOf' = [serialOf EXCEPT ![g] = NoSerial]
    /\ reply' = [reply EXCEPT ![g] = NoMsg]
    /\ UNCHANGED <<outMsg, connIO, signalMatchRules, mutex, busRest, busWatch,
                   frame, nameLog, daemon>>

\* ------------------------------------------------------------ specification

\* The fields of a new Connection and of the records kept beside it, whatever
\* the goroutines are doing.
InitUnhandled ==
    /\ issued = <<>>
    /\ found = NotAsked
    /\ lookup = NotLookedUp
    /\ codec = NotRun
    /\ removed = NotRemoved
    /\ stream = NotReading
    /\ busName = NoBusName
    /\ busWatch = [w \in BusWatches |-> NoBusWatch]
    /\ frame = [g \in Goroutines |-> NoFrame]
    /\ nameLog = [sent |-> <<>>, rets |-> <<>>, replies |-> <<>>]
    /\ ret = [g \in Goroutines |-> <<>>]
    /\ serialOf = [g \in Goroutines |-> NoSerial]
    /\ outMsg = [g \in Goroutines |-> NoMsg]
    /\ methodCallReplies = [s \in {} |-> Loop]
    /\ replyChan = [g \in Goroutines |-> <<>>]
    /\ reply = [g \in Goroutines |-> NoMsg]
    /\ result = [g \in Goroutines |-> "none"]
    /\ late = {}
    /\ wire = <<>>
    /\ connClosed = FALSE
    /\ rx = <<>>
    /\ msgChanClosed = FALSE
    /\ loopMsg = 0
    /\ loopMatches = <<>>
    /\ callArg = [g \in Goroutines |-> NoArg]
    /\ filterLog = <<>>
    /\ handled = <<>>
    /\ delivered = [w \in Watches |-> <<>>]
    /\ mutex = [l \in Locks |-> "free"]
    /\ chanClosed = [c \in Watches \cup NameWatches |-> FALSE]
    /\ ownerCbs = <<>>
    /\ panics = {}
    /\ cancelRets = [w \in {"sw", NameWatchId} |-> <<>>]
    /\ rmCalls = [w \in {"sw", NameInfoWatch} |-> 0]
    /\ nwRemoved = [w \in {"sw", NameWatchId} |-> 0]
    /\ lateSend = {}
    /\ raced = FALSE

\* One handler is registered when user code starts to run.
InitFields ==
    /\ InitUnhandled
    /\ objectPathHandlers = [p \in {"/obj"} |-> InitialHandler]

\* No handshake is modelled: Connect and Authenticate have returned.
Authenticated == [in |-> <<>>, err |-> "nil", ret |-> "nil", hungUp |-> FALSE]

InitConn ==
    /\ InitFields
    /\ pc = [g \in Goroutines |-> IF g = Loop THEN "recv"
                                 ELSE IF g \in Users THEN "idle" ELSE "unborn"]
    /\ recvPc = "read"
    /\ handshake = Authenticated

\* No watch with a sender has been made: there is no nameInfo.
InitNoNames ==
    /\ lastSerial = U32(1)
    /\ seen = [w \in NameCallbacks |-> <<>>]
    /\ nwChan = [w \in NameWatches |-> <<>>]
    /\ swInternal = FALSE
    /\ cancelled = [w \in {"sw", NameInfoWatch, NameWatchId} |-> FALSE]
    /\ nameInfo = FALSE
    /\ watches = <<>>
    /\ currentOwner = ""
    /\ daemon = DaemonWith("")

\* The connection after Connect and Authenticate (the Hello call took serial
\* 1; issued, wire and rx record what happens from here on), with a handler
\* registered for /obj and the signal watches w1 and w2 registered in that
\* order.
Init ==
    /\ InitConn
    /\ InitNoNames
    /\ messageFilters = <<>>
    /\ signalMatchRules = SetAdd(SetAdd([k \in {} |-> <<>>], "w1"), "w2")

SendStep(g) ==
    \/ Send_nextSerial(g)
    \/ Send_Write(g)
    \/ Send_MarshalError(g)

WriteToStep(g) ==
    \/ WriteTo_header(g)
    \/ WriteTo_body(g)

CallStep(g) ==
    \/ SWR_nextSerial(g)
    \/ SWR_register(g)
    \/ SWR_MarshalError(g)
    \/ SWR_write(g)
    \/ SWR_wait(g)

Receiver(offers) == RecvRead(offers) \/ RecvError

RunLoop ==
    \/ LoopTake
    \/ LoopExit
    \/ DispatchReply

Next ==
    \/ \E g \in Users : UserSend(g) \/ UserCall(g) \/ Close(g)
    \/ \E g \in Goroutines : SendStep(g) \/ CallStep(g)
    \/ Receiver(Replies({"method_return"}))
    \/ RunLoop

Spec == Init /\ [][Next]_vars

\* The same connection after it has handed out all serials but the last two
\* of the 32-bit range: lastSerial is 2^32 - 2.
InitWrap ==
    /\ InitConn
    /\ lastSerial = <<Limb - 1, Limb - 2>>
    /\ seen = [w \in NameCallbacks |-> <<>>]
    /\ nwChan = [w \in NameWatches |-> <<>>]
    /\ swInternal = FALSE
    /\ cancelled = [w \in {"sw", NameInfoWatch, NameWatchId} |-> FALSE]
    /\ nameInfo = FALSE
    /\ watches = <<>>
    /\ currentOwner = ""
    /\ daemon = DaemonWith("")
    /\ messageFilters = <<>>
    /\ signalMatchRules = SetAdd(SetAdd([k \in {} |-> <<>>], "w1"), "w2")

SpecWrap == InitWrap /\ [][Next]_vars

\* Senders only: user goroutines put signals on the socket through
\* Connection.Send and through Message.WriteTo, and may close the connection.
NextWrite ==
    \/ \E g \in Users : UserSend(g) \/ UserWriteTo(g) \/ Close(g)
    \/ \E g \in Users : SendStep(g) \/ WriteToStep(g)

SpecWrite == Init /\ [][NextWrite]_vars

\* The filter chains a program has registered before any message arrives.
FilterChains ==
    {<<>>, <<"replace", "dropOther">>, <<"dropReplies", "dropOther", "replace">>}

InitDispatch ==
    /\ InitConn
    /\ InitNoNames
    /\ messageFilters \in FilterChains
    /\ signalMatchRules = SetAdd(SetAdd([k \in {} |-> <<>>], "w1"), "w2")

\* Inbound traffic: signals and method calls of a peer are read, dispatched
\* to the watches and handlers, and answered by the run loop, and the replies
\* to the calls of one user goroutine are read and dispatched.
NextDispatch ==
    \/ UserCall("u1")
    \/ CallStep("u1")
    \/ Receiver(PeerSignals \cup PeerCalls \cup PeerPing \cup Replies({"method_return"}))
    \/ LoopTake
    \/ LoopExit
    \/ DispatchDropped
    \/ DispatchReply
    \/ DispatchPeer
    \/ DispatchToHandler
    \/ DispatchUnknownObject
    \/ DispatchSignal
    \/ DeliverSignal
    \/ Send_nextSerial(Loop)
    \/ Send_Write(Loop)

SpecDispatch == InitDispatch /\ [][NextDispatch]_vars

\* User goroutines register and unregister object path handlers while method
\* calls of a peer are read and dispatched.
NextPaths ==
    \/ \E g \in Users : UserPathCall(g, "rop") \/ UserPathCall(g, "uop")
    \/ \E g \in Users : RegisterObjectPath(g) \/ UnregisterObjectPath(g)
    \/ Receiver(PeerCallNew)
    \/ LoopTake
    \/ LoopExit
    \/ DispatchToHandler
    \/ DispatchUnknownObject
    \/ Send_nextSerial(Loop)
    \/ Send_Write(Loop)

SpecPaths == Init /\ [][NextPaths]_vars

\* The connection after WatchSignal for signals of the peer's unique name
\* (watch sw) and WatchName for that name (the NameWatch): the nameInfo of the
\* name exists with its NameOwnerChanged watch ni in the set, the owner is
\* resolved, both name watches are attached and the NameWatch's channel holds
\* the owner it was told at registration.  Hello, AddMatch for ni,
\* GetNameOwner and AddMatch for sw took the serials 1 to 4.
InitWatch ==
    /\ InitConn
    /\ lastSerial = U32(4)
    /\ messageFilters = <<>>
    /\ signalMatchRules = SetAdd(SetAdd([k \in {} |-> <<>>], NameInfoWatch), "sw")
    /\ swInternal = TRUE
    /\ cancelled = [w \in {"sw", NameInfoWatch, NameWatchId} |-> FALSE]
    /\ nameInfo = TRUE
    /\ watches = <<"sw", NameWatchId>>
    /\ currentOwner = PeerName
    /\ daemon = DaemonWith("")
    /\ nwChan = [w \in NameWatches |-> IF w = NameWatchId THEN <<PeerName>> ELSE <<>>]
    /\ seen = [w \in NameCallbacks |-> IF w = "nw2" THEN <<>> ELSE <<PeerName>>]

CancelStep(g) ==
    \/ C_lock(g)
    \/ C_check(g)
    \/ C_afterRemoveNameWatch(g)
    \/ C_afterCancel(g)
    \/ RNW_mutex(g)
    \/ RNW_lock(g)
    \/ RNW_body(g)
    \/ RNW_afterCancel(g)
    \/ IC_lock(g)
    \/ IC_body(g)
    \/ IC_afterRemoveMatch(g)
    \/ SWR_nextSerial(g)
    \/ SWR_register(g)
    \/ SWR_write(g)
    \/ SWR_wait(g)

NameCancelStep(g) ==
    \/ N_lock(g)
    \/ N_check(g)
    \/ N_afterRemoveNameWatch(g)

OwnerChange ==
    \/ DeliverOwnerChange
    \/ HOC_lock
    \/ HOC_cbSignalWatch
    \/ HOC_cbNameWatch
    \/ HOC_done

\* Watches being cancelled by user code while signals of the peer, owner
\* changes of its name and the daemon's replies to RemoveMatch are read and
\* dispatched, on a connection that stays up.
NextCancel ==
    \/ \E g \in Users : UserCancel(g) \/ UserCancelName(g) \/ NameCancelStep(g)
    \/ \E g \in Goroutines : CancelStep(g)
    \/ RecvRead(Replies({"method_return", "error"}) \cup SignalsToSw \cup OwnerLost)
    \/ LoopTake
    \/ DispatchReply
    \/ DispatchSignal
    \/ DeliverSignal
    \/ OwnerChange
    \/ \E w \in NameWatches : ConsumeName(w)

SpecWatch == InitWatch /\ [][NextCancel]_vars

\* Messages read over a run in which name watches are registered.
MaxNameReads == 4

WatchNameStep(g) ==
    \/ ENW_mutex(g)
    \/ ENW_lookup(g)
    \/ WS_afterAddMatch(g)
    \/ CCO_lock(g)
    \/ ENW_lock(g)
    \/ SWR_nextSerial(g)
    \/ SWR_register(g)
    \/ SWR_write(g)
    \/ SWR_wait(g)

\* Two user goroutines call WatchName for the same bus name while the
\* daemon's replies and its NameOwnerChanged signals for that name are read
\* and dispatched and the users receive from the watches' channels.
NextNames ==
    \/ \E g \in Users : UserWatchName(g) \/ WatchNameStep(g)
    \/ ReadUpTo(NameReplies \cup OwnerChanges, MaxNameReads)
    \/ LoopTake
    \/ DispatchReply
    \/ DispatchSignal
    \/ DeliverOwnerChange
    \/ HOC_lock
    \/ HOC_cbNameWatch
    \/ HOC_done
    \/ \E w \in NameWatches : ConsumeName(w)

SpecNames == Init /\ [][NextNames]_vars

\* Messages read over a run in which name watches come and go.
MaxLifeReads == 5

\* Serials of the calls of the given member that are on the socket and that
\* the daemon has not answered yet.
Unanswered(member) ==
    CallsWrittenOf(member) \ {rx[i].replySerial : i \in DOMAIN rx}

\* The daemon answers each call once: AddMatch and RemoveMatch with success
\* or an error, GetNameOwner with the peer as owner or with the error
\* NameHasNoOwner.
LifeReplies ==
    {DaemonReply(s, t, "") : s \in Unanswered("AddMatch") \cup Unanswered("RemoveMatch"),
                             t \in {"method_return", "error"}}
      \cup {DaemonReply(s, "method_return", PeerName) : s \in Unanswered("GetNameOwner")}
      \cup {DaemonReply(s, "error", "") : s \in Unanswered("GetNameOwner")}

\* User code calls WatchName for a NameWatch it has not cancelled.
UserWatchNameNew(g) ==
    /\ g = "u1" => ~cancelled[NameWatchId]
    /\ UserWatchName(g)

\* User code calls Cancel on the NameWatch that WatchName returned to u1.
UserCancelHeld(g) ==
    /\ NameWatchId \in Range(watches) \/ cancelled[NameWatchId]
    /\ UserCancelName(g)

RemoveStep(g) ==
    \/ RNW_mutex(g)
    \/ RNW_lock(g)
    \/ RNW_body(g)
    \/ RNW_afterCancel(g)
    \/ IC_lock(g)
    \/ IC_body(g)
    \/ IC_afterRemoveMatch(g)

\* Name watches on one bus name being registered by two users and the first
\* one being cancelled, in any interleaving with the daemon's replies and
\* with owner changes of the name.
NextLife ==
    \/ \E g \in Users : UserWatchNameNew(g) \/ WatchNameStep(g)
    \/ \E g \in Users : UserCancelHeld(g) \/ NameCancelStep(g) \/ RemoveStep(g)
    \/ ReadUpTo(LifeReplies \cup OwnerLost, MaxLifeReads)
    \/ LoopTake
    \/ DispatchReply
    \/ DispatchSignal
    \/ DeliverOwnerChange
    \/ HOC_lock
    \/ HOC_cbNameWatch
    \/ HOC_done
    \/ \E w \in NameWatches : ConsumeName(w)

SpecLife == Init /\ [][NextLife]_vars

\* The connection after Connect and Authenticate, with no watch and no
\* handler of its own making, on a bus where the name is free, owned by the
\* peer, or owned by this connection already.
InitBusName ==
    /\ InitConn
    /\ lastSerial = U32(1)
    /\ seen = [w \in NameCallbacks |-> <<>>]
    /\ nwChan = [w \in NameWatches |-> <<>>]
    /\ swInternal = FALSE
    /\ cancelled = [w \in {"sw", NameInfoWatch, NameWatchId} |-> FALSE]
    /\ nameInfo = FALSE
    /\ watches = <<>>
    /\ currentOwner = ""
    /\ messageFilters = <<>>
    /\ signalMatchRules = [k \in {} |-> <<>>]
    /\ daemon \in {DaemonWith(o) : o \in {"", PeerName, OurName}}

RequestStep ==
    \/ RQ_lock
    \/ \E w \in BusWatches : BN_WatchSignal(w) \/ BN_afterAddMatch(w)
    \/ RQ_switch
    \/ RQ_send
    \/ LG_lock
    \/ LG_send
    \/ AG_send
    \/ \E g \in BusNameGoroutines : BN_return(g) \/ BN_rangeEnd(g)

ReleaseStep(g) ==
    \/ REL_lock(g)
    \/ REL_end(g)
    \/ RLS_body(g)
    \/ \E w \in BusWatches : RLS_cancel(g, w) \/ RLS_afterRemoveMatch(g, w)
    \/ RLS_close(g)
    \/ RLS_afterReleaseName(g)
    \/ SWR_nextSerial(g)
    \/ SWR_register(g)
    \/ SWR_write(g)
    \/ SWR_wait(g)

Daemon ==
    \/ DaemonServe
    \/ PeerReleasesName
    \/ PeerTakesName

\* One user goroutine requests a bus name and user code releases it, while
\* the daemon answers, the peer takes and releases the same name, the
\* daemon's messages are read and dispatched, and user code receives from
\* name.C.
NextBusName ==
    \/ UserRequestName("u1")
    \/ \E g \in Users : UserRelease(g)
    \/ RequestStep
    \/ \E g \in Users \cup BusNameGoroutines : ReleaseStep(g)
    \/ Daemon
    \/ RecvFromDaemon
    \/ LoopTake
    \/ DispatchReply
    \/ DispatchSignal
    \/ DeliverBusSignal
    \/ ConsumeBusName

SpecBusName == InitBusName /\ [][NextBusName]_vars


\* Calls made on the connection during and after the handshake.
MaxAuthSerials == 2

\* A new process: Connect has not been called, no receiver runs and no
\* serial has been handed out.
InitAuth ==
    /\ InitFields
    /\ lastSerial = U32(0)
    /\ seen = [w \in NameCallbacks |-> <<>>]
    /\ nwChan = [w \in NameWatches |-> <<>>]
    /\ swInternal = FALSE
    /\ cancelled = [w \in {"sw", NameInfoWatch, NameWatchId} |-> FALSE]
    /\ nameInfo = FALSE
    /\ watches = <<>>
    /\ currentOwner = ""
    /\ daemon = DaemonWith("")
    /\ pc = [g \in Goroutines |-> IF g = Loop THEN "recv"
                                 ELSE IF g = Dialer THEN "connect"
                                 ELSE IF g \in Users THEN "idle" ELSE "unborn"]
    /\ recvPc = "unstarted"
    /\ handshake = Unconnected
    /\ messageFilters = <<>>
    /\ signalMatchRules = [k \in {} |-> <<>>]

\* User code makes calls once Authenticate has returned.
UserCallAfterAuth(g) ==
    /\ pc[Dialer] = "idle"
    /\ Len(issued) < MaxAuthSerials
    /\ UserCall(g)

\* Connect and Authenticate against a server that may send any line, then
\* the Hello call and calls of user code while replies are read and
\* dispatched.
NextAuth ==
    \/ Connect
    \/ Auth_write
    \/ Auth_read
    \/ Auth_go
    \/ Auth_hello
    \/ \E g \in Users : UserCallAfterAuth(g)
    \/ \E g \in Users : SWR_nextSerial(g) \/ SWR_register(g) \/ SWR_write(g) \/ SWR_wait(g)
    \/ ReadUpTo(Replies({"method_return", "error"}), MaxRead)
    \/ LoopTake
    \/ DispatchReply

SpecAuth == InitAuth /\ [][NextAuth]_vars

\* A signalWatchSet of its own, empty at first.
InitMatch ==
    /\ InitConn
    /\ InitNoNames
    /\ messageFilters = <<>>
    /\ signalMatchRules = [k \in {} |-> <<>>]

\* Watches are added to the set and removed from it in any order and the
\* set is asked for the matches of signals.
NextMatch ==
    \/ \E w \in MatchWatches : Set_Add(w)
    \/ \E w \in MatchWatches : Set_Remove(w)
    \/ \E msg \in MatchSignals : Set_FindMatches(msg)

SpecMatch == InitMatch /\ [][NextMatch]_vars

\* The table of TestGlob, from which paths are deleted and in which paths
\* are looked up.
InitGlob ==
    /\ InitUnhandled
    /\ objectPathHandlers = hs
    /\ pc = [g \in Goroutines |-> IF g = Loop THEN "recv"
                                 ELSE IF g \in Users THEN "idle" ELSE "unborn"]
    /\ recvPc = "read"
    /\ handshake = Authenticated
    /\ InitNoNames
    /\ messageFilters = <<>>
    /\ signalMatchRules = [k \in {} |-> <<>>]

NextGlob ==
    \/ \E path \in DOMAIN hs : Table_Delete(path)
    \/ \E path \in GlobPaths : Table_Lookup(path)

SpecGlob == InitGlob /\ [][NextGlob]_vars

\* Arguments are marshalled and unmarshalled, in either byte order.
NextCodec ==
    \E args \in CodecArgs, order \in ByteOrders : Codec_RoundTrip(args, order)

SpecCodec == InitMatch /\ [][NextCodec]_vars

\* The goroutine that receives from sw.C, between its own calls.
Reader == "u1"

\* The handler of sw, `watch.C <- msg`: C is unbuffered, so the send goes
\* through when the reader stands at its receive; on a closed channel it
\* panics at once.
SendToReader ==
    /\ pc[Loop] = "deliver"
    /\ chanClosed[NextWatch(loopMatches)] \/ pc[Reader] = "idle"
    /\ DeliverSignal

\* The run of SpecWatch without owner changes, with the reader of sw.C
\* being one of the goroutines that cancel.
NextConsume ==
    \/ \E g \in Users : UserCancel(g) \/ UserCancelName(g) \/ NameCancelStep(g)
    \/ \E g \in Users : CancelStep(g)
    \/ RecvRead(Replies({"method_return", "error"}) \cup SignalsToSw)
    \/ LoopTake
    \/ DispatchReply
    \/ DispatchSignal
    \/ SendToReader
    \/ \E w \in NameWatches : ConsumeName(w)

SpecConsume == InitWatch /\ [][NextConsume]_vars

\* Messages read over a run in which signal watches are registered.
MaxWatchReads == 4

WatchSignalStep(g) ==
    \/ ENW_mutex(g)
    \/ ENW_lookup(g)
    \/ WS_afterAddMatch(g)
    \/ CCO_lock(g)
    \/ ENW_lockSw(g)
    \/ ENW_cb(g)
    \/ ENW_done(g)
    \/ WSig_named(g)
    \/ WSig_watch(g)
    \/ WSig_afterAddMatch(g)
    \/ WSig_fail(g)
    \/ SWR_nextSerial(g)
    \/ SWR_register(g)
    \/ SWR_write(g)
    \/ SWR_wait(g)

\* The watches each user asks for.
WatchesOf(g) == IF g = "u1" THEN {"sw"} ELSE NewWatches \ {"sw"}

\* User code calls WatchSignal for new watches, with and without a sender,
\* and the daemon answers AddMatch, GetNameOwner and RemoveMatch with
\* success or an error.
NextRegister ==
    \/ \E g \in Users : \E w \in WatchesOf(g) : UserWatchSignal(g, w)
    \/ \E g \in Users : WatchSignalStep(g) \/ RemoveStep(g)
    \/ ReadUpTo(LifeReplies, MaxWatchReads)
    \/ LoopTake
    \/ DispatchReply

SpecRegister == InitMatch /\ [][NextRegister]_vars

\* The handshake against a server that may close the connection in the
\* middle of it.  The goroutine that connects keeps running: each of its
\* steps is taken once it stays enabled.
NextHangup ==
    \/ Connect
    \/ Auth_write
    \/ Auth_read
    \/ ServerCloses
    \/ Auth_readAtEnd
    \/ Auth_default

SpecHangup ==
    /\ InitAuth
    /\ [][NextHangup]_vars
    /\ WF_vars(Connect)
    /\ WF_vars(Auth_write)
    /\ WF_vars(Auth_readAtEnd)
    /\ WF_vars(Auth_default)

\* readMessage is called on a stream that carries one frame and hands it
\* over in pieces of any size.
NextRead ==
    \/ \E f \in Frames : RM_call(f)
    \/ RM_header
    \/ RM_fields
    \/ RM_body

SpecRead == InitMatch /\ [][NextRead]_vars

\* ------------------------------------------------------------------ claims

\* C1: for every call made through SendWithReply, under any interleaving of
\* callers and any order of replies on the wire, the message returned to the
\* caller carries a reply serial equal to the serial assigned to that
\* caller's method call.
C1_ReplyCorrelation ==
    \A g \in Users : result[g] = "reply" => reply[g].replySerial = serialOf[g]

\* Two concurrent callers have both returned with a reply, and the replies
\* were read from the socket in the reverse of the order of their calls.
C1_Witness ==
    /\ \A g \in Users : result[g] = "reply"
    /\ Len(rx) = 2
    /\ SerialLess(rx[2].replySerial, rx[1].replySerial)

\* C2 (as stated): after Close has shut the socket and the receive task and
\* the run loop have terminated, no caller is left waiting in SendWithReply
\* on a reply channel into which nothing has been or will be put.
C2_NoCallerLeftWaiting ==
    (connClosed /\ recvPc = "done" /\ pc[Loop] = "done") =>
        \A g \in Users : ~(pc[g] = "swr_wait" /\ replyChan[g] = <<>>)

\* C3 (as stated): a call started after the receive task has terminated
\* fails at once: it never registers a reply slot and never waits for a reply.
C3_LateCallFailsAtOnce ==
    \A g \in late : pc[g] \notin {"swr_write", "swr_wait"}

\* C4: no two outbound messages are assigned the same serial, whatever the
\* interleaving of the goroutines in Send and SendWithReply.
C4_SerialsDistinct ==
    \A i, j \in DOMAIN issued : i # j => issued[i] # issued[j]

\* Two goroutines, one in Send and one in SendWithReply, hold a serial each
\* and neither has written its message yet.
C4_Witness ==
    \E g, h \in Users :
        /\ pc[g] = "send_write"
        /\ pc[h] \in {"swr_register", "swr_write"}
        /\ Len(issued) = 2

\* C5 (as stated): if message A is written to the socket before message B,
\* A's serial is smaller than B's.
C5_WireOrderIsSerialOrder ==
    \A i, j \in DOMAIN wire :
        i < j => SerialLess(wire[i].serial, wire[j].serial)

\* C5 (amended): serials are strictly increasing in the order in which
\* nextSerial hands them out, and the messages one goroutine writes appear on
\* the socket in the order of their serials; messages of different goroutines
\* may be written in either order.
C5_AssignmentOrderIsSerialOrder ==
    /\ \A i, j \in DOMAIN issued : i < j => SerialLess(issued[i], issued[j])
    /\ \A i, j \in DOMAIN wire :
          (i < j /\ wire[i].by = wire[j].by) =>
              SerialLess(wire[i].serial, wire[j].serial)

\* Two goroutines have written their messages in the reverse of the order in
\* which they took their serials.
C5_Witness ==
    \E i, j \in DOMAIN wire :
        /\ i < j
        /\ wire[i].by # wire[j].by
        /\ SerialLess(wire[j].serial, wire[i].serial)

SignalFor(w, j) ==
    /\ Filtered(messageFilters, rx[j]) # NoMsg
    /\ rx[j].Type = "signal"
    /\ Match(Rule(w), rx[j])

\* C7: for every signal watch the messages delivered to it are a subsequence,
\* in read order, of the messages read from the socket, and a message is
\* taken for dispatch only when the dispatch of every earlier message is
\* finished, i.e. every watch it matched has received it.
C7_SignalsInWireOrder ==
    \A w \in Watches \cap InSet(signalMatchRules) :
        /\ \A i, j \in DOMAIN delivered[w] : i < j => delivered[w][i] < delivered[w][j]
        /\ \A i \in DOMAIN delivered[w] :
              /\ delivered[w][i] \in 1..loopMsg
              /\ SignalFor(w, delivered[w][i])
        /\ \A j \in 1..(loopMsg - 1) : SignalFor(w, j) => j \in Range(delivered[w])

\* Two signals that both watches match have been read and delivered to both.
C7_Witness ==
    /\ delivered["w1"] = <<1, 2>>
    /\ delivered["w2"] = <<1, 2>>

C9_CancelIdempotent ==
    /\ rmCalls["sw"] <= 1
    /\ nwRemoved["sw"] <= 1
    /\ "close of closed channel" \notin panics
    /\ \A i \in DOMAIN cancelRets["sw"] : i > 1 => cancelRets["sw"][i] = "nil"

\* The mutex g is waiting for, if it is waiting for one.
WaitsFor(g) ==
    CASE pc[g] = "c_lock" -> "watch.lock"
      [] pc[g] = "rnw_mutex" -> "nameInfoMutex"
      [] pc[g] \in {"rnw_lock", "hoc_lock"} -> "info.lock"
      [] pc[g] = "ic_lock" -> CancelLockOf(CancelTarget(g))
      [] pc[g] = "n_lock" -> "nw.cancelLock"
      [] OTHER -> "none"

\* C10 (as stated): when the owner change to "" arrives for the unique name
\* that sw has as sender, the Cancel that the owner-change callback runs goes
\* through: the goroutine running it never waits for a mutex that it holds
\* itself, which would leave the watch in the set and its channel open for
\* ever.
C10_OwnerLossCancelsWatch ==
    InCancel(Loop) => ~(WaitsFor(Loop) \in Locks /\ mutex[WaitsFor(Loop)] = Loop)

\* The inbound method calls among rx[1..n] that pass the filters, are not one
\* of the built-in Peer methods and whose path has no registered handler.
UnknownObjectCalls(n) ==
    {j \in 1..n :
        /\ Filtered(messageFilters, rx[j]) # NoMsg
        /\ rx[j].Type = "method_call"
        /\ ~(rx[j].Iface = PeerIface /\ rx[j].Member \in {"Ping", "GetMachineId"})
        /\ rx[j].Path \notin DOMAIN objectPathHandlers}

\* The error messages written to the socket, in write order.
ErrorsWritten == SelectSeq(wire, LAMBDA c : c.type = "error")

\* The messages whose dispatch is finished.
Dispatched == IF pc[Loop] \in {"recv", "done"} THEN loopMsg ELSE loopMsg - 1

\* The elements of a set of numbers in increasing order.
RECURSIVE Sorted(_)
Sorted(S) ==
    IF S = {} THEN <<>>
    ELSE LET m == CHOOSE x \in S : \A y \in S : x <= y
         IN <<m>> \o Sorted(S \ {m})

\* C15: the error messages on the socket are, one for one and in order, the
\* answers to the dispatched method calls that are not a Peer method and have
\* no handler for their path: each is named UnknownObject, carries the call's
\* serial as reply serial and the call's sender as destination; a call whose
\* path has a handler is forwarded to the handler and gets no such answer.
C15_UnknownObjectAnswered ==
    LET calls == Sorted(UnknownObjectCalls(Dispatched))
    IN /\ Len(ErrorsWritten) = Len(calls)
       /\ \A k \in DOMAIN calls :
             /\ ErrorsWritten[k].errorName = UnknownObject
             /\ ErrorsWritten[k].replySerial = rx[calls[k]].serial
             /\ ErrorsWritten[k].dest = rx[calls[k]].Sender
       /\ \A i \in DOMAIN handled :
             /\ rx[handled[i]].Path \in DOMAIN objectPathHandlers
             /\ handled[i] \notin UnknownObjectCalls(Len(rx))

\* A call for a path without handler has been answered with an error and a
\* call for a path with a handler has been forwarded.
C15_Witness ==
    /\ Len(ErrorsWritten) = 1
    /\ handled # <<>>
    /\ pc[Loop] = "recv"

\* The run loop finishes the dispatch of a method_return or error message.
ReplyDispatched ==
    /\ pc[Loop] = "dispatch"
    /\ pc'[Loop] = "recv"
    /\ CurMsg # NoMsg
    /\ CurMsg.Type \in {"method_return", "error"}

\* C16: a method_return or error whose reply serial has no entry in
\* methodCallReplies is dropped: no reply channel, no table and no sink
\* changes; one that has an entry takes the entry out of the map and is put
\* into that caller's empty reply channel, so that no caller is ever handed
\* more than one reply and a second reply with the same reply serial is
\* dropped.
C16_UnmatchedReplyDropped ==
    /\ [](\A g \in Goroutines : Len(replyChan[g]) <= 1)
    /\ [][ReplyDispatched =>
            IF CurMsg.replySerial \in DOMAIN methodCallReplies
              THEN /\ CurMsg.replySerial \notin DOMAIN methodCallReplies'
                   /\ replyChan[methodCallReplies[CurMsg.replySerial]] = <<>>
                   /\ replyChan' =
                        [replyChan EXCEPT ![methodCallReplies[CurMsg.replySerial]] = <<CurMsg>>]
              ELSE UNCHANGED <<slotVars, callVars, serialVars, sockVars, tableVars,
                               sinkVars>>]_vars

\* Two replies with the same reply serial were read and dispatched: the
\* caller returned with the first, the second found no entry.
C16_Witness ==
    /\ Len(rx) = 2
    /\ rx[1].replySerial = rx[2].replySerial
    /\ Dispatched = 2
    /\ \E g \in Users : result[g] = "reply" /\ reply[g].replySerial = rx[1].replySerial
    /\ \A g \in Goroutines : replyChan[g] = <<>>

\* g leaves the body of RegisterObjectPath or UnregisterObjectPath.
PathCallDone(g, entry) == pc[g] = entry /\ pc'[g] # entry

\* C17: each path has at most one handler; RegisterObjectPath on a path that
\* has a handler panics and leaves the handler map as it is, and on a free
\* path it adds exactly that entry; UnregisterObjectPath on a path without a
\* handler panics and leaves the map as it is, and on a registered path it
\* removes exactly that entry.
C17_OneSinkPerPath ==
    [][\A g \in Users :
         /\ PathCallDone(g, "rop") =>
               IF callArg[g].path \in DOMAIN objectPathHandlers
                 THEN /\ result'[g] = "panic"
                      /\ objectPathHandlers' = objectPathHandlers
                 ELSE /\ result'[g] = "ok"
                      /\ DOMAIN objectPathHandlers' =
                            DOMAIN objectPathHandlers \cup {callArg[g].path}
                      /\ objectPathHandlers'[callArg[g].path] = callArg[g].handler
                      /\ \A p \in DOMAIN objectPathHandlers :
                            objectPathHandlers'[p] = objectPathHandlers[p]
         /\ PathCallDone(g, "uop") =>
               IF callArg[g].path \notin DOMAIN objectPathHandlers
                 THEN /\ result'[g] = "panic"
                      /\ objectPathHandlers' = objectPathHandlers
                 ELSE /\ result'[g] = "ok"
                      /\ DOMAIN objectPathHandlers' =
                            DOMAIN objectPathHandlers \ {callArg[g].path}
                      /\ \A p \in DOMAIN objectPathHandlers' :
                            objectPathHandlers'[p] = objectPathHandlers[p]]_vars

\* Both panics have happened, and /obj still has the handler it had before
\* the run while /new has the handler of the goroutine that registered it.
C17_Witness ==
    /\ "A handler has already been registered" \in panics
    /\ "No handler registered" \in panics
    /\ DOMAIN objectPathHandlers = Paths
    /\ objectPathHandlers["/obj"] = InitialHandler
    /\ objectPathHandlers["/new"] \in {HandlerOf(g) : g \in Users}

\* The filter calls made for the message read as rx[j], in order.
FilterCallsFor(j) == SelectSeq(filterLog, LAMBDA c : c.msg = j)

\* C18: when a filter returns nil for a message, no filter is called for
\* that message afterwards, and the message is put into no reply channel,
\* handed to no object path handler and delivered to no signal watch.
C18_DroppedMessageStops ==
    \A i \in DOMAIN filterLog :
        filterLog[i].returned = NoMsg =>
            LET j == filterLog[i].msg
            IN /\ \A k \in DOMAIN filterLog : k > i => filterLog[k].msg # j
               /\ j \notin Range(handled)
               /\ \A w \in Watches : j \notin Range(delivered[w])
               /\ \A g \in Goroutines :
                     rx[j] \notin Range(replyChan[g]) /\ reply[g] # rx[j]

\* A reply to a waiting call was dropped by the first of three filters and
\* a signal by the second, and both dispatches are over.
C18_Witness ==
    /\ Len(messageFilters) = 3
    /\ \E i, k \in DOMAIN filterLog :
          /\ filterLog[i].returned = NoMsg /\ filterLog[i].given.Type = "method_return"
          /\ filterLog[k].returned = NoMsg /\ filterLog[k].given.Type = "signal"
    /\ Dispatched = 2
    /\ pc["u1"] = "swr_wait"

\* C19 (as stated): when a filter returns a message different from the one
\* it was given, the next filter is given that replacement, and the message
\* delivered to the signal watches is the one the last filter returned: each
\* watch that received it matches the replacement.
C19_ReplacementDispatched ==
    /\ \A i \in DOMAIN filterLog :
          (i > 1 /\ filterLog[i - 1].msg = filterLog[i].msg) =>
              filterLog[i].given = filterLog[i - 1].returned
    /\ \A w \in Watches : \A i \in DOMAIN delivered[w] :
          LET calls == FilterCallsFor(delivered[w][i])
          IN calls # <<>> => Match(Rule(w), calls[Len(calls)].returned)

\* C20 (as stated): nextSerial never hands out 0 and no message is written
\* to the socket with serial 0, also when the 32-bit counter wraps around.
C20_SerialNeverZero ==
    /\ \A i \in DOMAIN issued : issued[i] # NoSerial
    /\ \A i \in DOMAIN wire : wire[i].serial # NoSerial

\* a is the tail of b.
IsSuffix(a, b) ==
    /\ Len(a) <= Len(b)
    /\ a = SubSeq(b, Len(b) - Len(a) + 1, Len(b))

\* The name watches registered on the name, seen when no owner change and no
\* registration is under way.
Registered == IF mutex["info.lock"] = "free" THEN Range(watches) ELSE {}

\* C11 (as stated): the callbacks registered on the same name have observed
\* the same sequence of owner values.
C11_SameOwnerSequence ==
    \A v, w \in Registered : seen[v] = seen[w]

\* C11 (amended): every callback registered on a name has been told an
\* owner, the last one it was told is the nameInfo's current owner, and of
\* two callbacks the one registered later has observed a tail of what the
\* other observed: they agree from the later registration on; processing a
\* NameOwnerChanged signal makes its new owner the current owner.
C11_SameOwnersSinceRegistration ==
    /\ [](\A w \in Registered :
             /\ seen[w] # <<>>
             /\ seen[w][Len(seen[w])] = currentOwner)
    /\ [](\A v, w \in Registered : IsSuffix(seen[v], seen[w]) \/ IsSuffix(seen[w], seen[v]))
    /\ [][(pc[Loop] = "hoc_lock" /\ pc'[Loop] = "hoc_iter") =>
             currentOwner' = rx[loopMsg].Arg]_vars

\* Two owner changes were processed; one watch was registered before both
\* and the other between them.
C11_Witness ==
    /\ Registered = NameWatches
    /\ \E v, w \in NameWatches : Len(seen[v]) = 3 /\ Len(seen[w]) = 2

\* The values sent on name.C so far, in order, and the serials of the
\* RequestName calls the daemon has answered with the code r.
SentValues == [i \in DOMAIN nameLog.sent |-> nameLog.sent[i].value]

AnsweredWith(r) ==
    {m.replySerial : m \in {n \in Range(rx) \cup Range(daemon.out) :
        n.Type = "method_return" /\ n.Arg = r
            /\ n.replySerial \in CallsWrittenOf("RequestName")}}

\* C12: when this connection requests a name the peer owns, with flags 0,
\* its BusName delivers ErrNameInQueue first: a nil on name.C comes after
\* ErrNameInQueue.
C12_InQueueBeforeOk ==
    (busName.Flags = {} /\ AnsweredWith("2") # {}) =>
        \A i \in DOMAIN SentValues :
            SentValues[i] = Ok =>
                \E j \in 1..(i - 1) : SentValues[j] = ErrNameInQueue

\* The request goroutine is past the switch and the send of its case.
RequestSettled ==
    /\ nameLog.replies # <<>>
    /\ pc["rq"] \notin {"rq_switch", "rq_send"}

\* C13 as stated: after the reply r has been processed, the value of r is on
\* the event channel (Ok for 1, InQueue for 2, Exists for 3, AlreadyOwned for
\* 4, the unknown error otherwise), whoever sent it.
C13_ReplyEventOnChannel ==
    RequestSettled =>
        LET r == nameLog.replies[1]
        IN (CASE r = "1" -> Ok
              [] r = "2" -> ErrNameInQueue
              [] r = "3" -> ErrNameExists
              [] r = "4" -> ErrNameAlreadyOwned
              [] OTHER -> ErrUnknown) \in Range(SentValues)

\* C13: the step of request that takes the reply r sets needs-release for 1
\* and 2 and leaves it unset otherwise; for 1 it sends nothing and request
\* returns, for every other r the next thing request does is to send
\* InQueue (2), Exists (3), AlreadyOwned (4) or the unknown error on the
\* event channel; a nil on the channel is always sent by the goroutine that
\* forwards NameAcquired.
C13_ReplySetsMarkAndEvent ==
    /\ [](\A i \in DOMAIN nameLog.sent :
            nameLog.sent[i].value = Ok => nameLog.sent[i].by = "ag")
    /\ [][/\ (pc["rq"] = "rq_switch" /\ pc'["rq"] # "rq_switch"
                  /\ reply["rq"].Type # "error") =>
               LET r == reply["rq"].Arg
               IN /\ busName'.needsRelease = (r \in {"1", "2"})
                  /\ nameLog'.sent = nameLog.sent
                  /\ IF r = "1" THEN pc'["rq"] = "done"
                     ELSE /\ pc'["rq"] = "rq_send"
                          /\ frame'["rq"].value =
                               (CASE r = "2" -> ErrNameInQueue
                                  [] r = "3" -> ErrNameExists
                                  [] r = "4" -> ErrNameAlreadyOwned
                                  [] OTHER -> ErrUnknown)
          /\ (pc["rq"] = "rq_send" /\ pc'["rq"] # "rq_send") =>
               /\ nameLog'.sent = Append(nameLog.sent,
                                         [by |-> "rq", value |-> frame["rq"].value])
               /\ busName'.needsRelease = busName.needsRelease]_vars

\* The reply PRIMARY_OWNER has been processed: the mark is set, request has
\* returned and nothing is on the channel yet.
C13_Witness ==
    /\ nameLog.replies = <<"1">>
    /\ pc["rq"] = "done"
    /\ busName.needsRelease
    /\ nameLog.sent = <<>>

\* The Release calls that have returned, and those of them that were made on
\* a BusName whose needs-release mark was set.
ReleaseReturned(g) == g \in Users /\ pc[g] = "idle" /\ result[g] \in {"nil"}

\* C14: a Release on a BusName whose needs-release mark is set calls the
\* daemon's ReleaseName, also after a NameLost signal was forwarded;
\* ReleaseName is called at most once over all Release calls.
C14_ReleaseCallsDaemon ==
    /\ Cardinality(CallsWrittenOf("ReleaseName")) <= 1
    /\ \A g \in Users :
         (ReleaseReturned(g) /\ frame[g].needsRelease) =>
             CallsWrittenOf("ReleaseName") # {}

\* A goroutine stands between registering its reply slot and receiving the
\* reply, and nothing has been put into its reply channel yet.
AwaitsReply(g) ==
    /\ pc[g] \in {"swr_write", "swr_wait"}
    /\ replyChan[g] = <<>>

\* C30: in every call the reply slot of the call's serial is in
\* methodCallReplies before the frame is written, so whenever a reply to the
\* call can be dispatched the slot is there: a caller about to write, or
\* waiting with an empty reply channel, has its slot registered under its
\* serial, and the frame of a call is on the socket only once its slot has
\* been registered.
C30_SlotBeforeFrame ==
    /\ \A g \in Goroutines :
         AwaitsReply(g) =>
             /\ serialOf[g] \in DOMAIN methodCallReplies
             /\ methodCallReplies[serialOf[g]] = g
    /\ \A g \in Goroutines :
         pc[g] = "swr_register" =>
             \A i \in DOMAIN wire : wire[i].serial # serialOf[g]

\* The reply to one call has been dispatched into the caller's channel while
\* another caller has registered its slot and not yet written its frame.
C30_Witness ==
    \E g, h \in Users :
        /\ pc[g] = "swr_wait" /\ replyChan[g] # <<>>
        /\ Head(replyChan[g]).replySerial = serialOf[g]
        /\ pc[h] = "swr_write" /\ serialOf[h] \in DOMAIN methodCallReplies

\* C27: the step of ensureNameWatch that attaches a watch to the NameInfo
\* runs with the NameInfo lock free for it to take, and when the owner is
\* resolved it calls the new callback exactly once with the current owner,
\* in the step that ends with the return of the registration, and calls no
\* callback registered before; when the owner is not resolved it calls no
\* callback at all.
C27_NewCallbackToldOnce ==
    [][\A g \in Users :
         (pc[g] = "enw_lock" /\ pc'[g] # "enw_lock") =>
             LET w == callArg[g].watch
             IN /\ mutex["info.lock"] = "free"
                /\ watches' = Append(watches, w)
                /\ currentOwner' = currentOwner
                /\ pc'[g] = "idle" /\ result'[g] = "ok"
                /\ IF currentOwner # Unresolved
                     THEN seen' = [seen EXCEPT ![w] = Append(@, currentOwner)]
                     ELSE seen' = seen]_vars

\* The second watch has been attached after an owner change: the first
\* callback has seen two owners, the second one only the current owner.
C27_Witness ==
    /\ watches = <<NameWatchId, "nw2">>
    /\ Len(seen[NameWatchId]) = 2
    /\ seen["nw2"] = <<currentOwner>>
    /\ seen[NameWatchId][1] # currentOwner

\* checkCurrentOwner examines the GetNameOwner result in this step.
ExaminesResult(g) == pc[g] = "cco_lock" /\ pc'[g] # "cco_lock"

\* C26: the result of the initial GetNameOwner call becomes the current
\* owner if and only if the info is still unresolved when checkCurrentOwner
\* examines it; when handleOwnerChange has already stored an owner for a
\* NameOwnerChanged signal, the empty string included, the result is dropped
\* and the stored owner stays.  Every owner a signal stores counts as a
\* resolution, and only a new info is unresolved.
C26_FirstResolutionOnly ==
    /\ [][\A g \in Users :
            ExaminesResult(g) =>
                IF currentOwner = Unresolved
                  THEN currentOwner' = (IF reply[g].Type = "error" THEN ""
                                        ELSE reply[g].Arg)
                  ELSE currentOwner' = currentOwner]_vars
    /\ [][(pc[Loop] = "hoc_lock" /\ pc'[Loop] # "hoc_lock") =>
            /\ currentOwner' = rx[loopMsg].Arg
            /\ currentOwner' # Unresolved]_vars
    /\ [][(currentOwner # Unresolved /\ currentOwner' = Unresolved) =>
            \E g \in Users : pc[g] = "enw_lookup" /\ ~nameInfo]_vars

\* The daemon's AddMatch reply, then NameOwnerChanged with the empty owner,
\* then the GetNameOwner reply naming the peer: the signal was processed
\* first and the info kept the empty owner when the result was examined.
C26_Witness ==
    \E g \in Users :
        /\ pc[g] = "enw_lock"
        /\ watches = <<>>
        /\ Len(rx) = 3
        /\ rx[2] = NameOwnerChanged("")
        /\ rx[3].Type = "method_return" /\ rx[3].Arg = PeerName
        /\ currentOwner = ""

\* The mutex a goroutine is about to lock among the connection-level
\* nameInfoMutex and the per-NameInfo lock.
AboutToLock(g) ==
    CASE pc[g] \in {"enw_mutex", "rnw_mutex"} -> "nameInfoMutex"
      [] pc[g] \in {"enw_lock", "rnw_lock", "hoc_lock", "cco_lock"} -> "info.lock"
      [] OTHER -> "none"

\* C29 (as stated): the connection-level nameInfoMutex is always taken before
\* the per-NameInfo lock: no goroutine that holds info.lock is about to lock
\* nameInfoMutex or to lock info.lock again, the run loop inside an
\* owner-change callback included.
C29_ConnectionLockFirst ==
    \A g \in Goroutines : mutex["info.lock"] = g => AboutToLock(g) = "none"

\* No registration or cancellation of a name watch is inside the section
\* that nameInfoMutex guards.
NamesSettled == Free("nameInfoMutex")

\* How many times the NameOwnerChanged watch of the nameInfo is in the set.
InfoWatchCount ==
    LET b == Bucket(signalMatchRules, KeyOf(NameInfoWatch))
    IN Cardinality({i \in DOMAIN b : b[i] = NameInfoWatch})

\* C28: whenever no registration or cancellation is under way, the
\* connection has the nameInfo of the name exactly when info.watches is not
\* empty, and exactly then its one NameOwnerChanged watch is in the set; a
\* watch whose Cancel has returned is not in info.watches.  The nameInfo is
\* made only by a registration that finds none, a registration that finds
\* one attaches to it without a new signal watch, and it is deleted only by
\* the removal of its last watch, which also takes its signal watch out.
C28_InfoWhileWatched ==
    /\ [](/\ NamesSettled => (nameInfo <=> watches # <<>>)
          /\ NamesSettled => InfoWatchCount = (IF nameInfo THEN 1 ELSE 0)
          /\ InfoWatchCount <= 1
          /\ \A i, j \in DOMAIN watches : watches[i] = watches[j] => i = j
          /\ cancelRets[NameWatchId] # <<>> => NameWatchId \notin Range(watches))
    /\ [][(~nameInfo /\ nameInfo') =>
            /\ watches = <<>>
            /\ \E g \in Users : pc[g] = "cco_lock" /\ mutex["nameInfoMutex"] = g]_vars
    /\ [][\A g \in Users :
            (pc[g] = "enw_lookup" /\ pc'[g] # "enw_lookup" /\ nameInfo) =>
                /\ pc'[g] = "enw_lock"
                /\ signalMatchRules' = signalMatchRules
                /\ nameInfo']_vars
    /\ [][(nameInfo /\ ~nameInfo') =>
            /\ Len(watches) = 1 /\ watches' = <<>>
            /\ \E g \in Users : /\ pc[g] = "rnw_body" /\ pc'[g] = "ic_lock"
                                /\ mutex["nameInfoMutex"] = g]_vars
    /\ [][\A g \in Users :
            (pc[g] = "rnw_after_cancel" /\ pc'[g] # "rnw_after_cancel") =>
                InfoWatchCount = 0 /\ ~nameInfo]_vars

\* The first watch made the nameInfo and its Cancel, being the last one's,
\* deleted it and called RemoveMatch; the second user's WatchName then made
\* it anew.
C28_Witness ==
    /\ NamesSettled
    /\ cancelRets[NameWatchId] # <<>>
    /\ rmCalls[NameInfoWatch] = 1
    /\ nameInfo
    /\ watches = <<"nw2">>
    /\ InfoWatchCount = 1

\* The line begins with the bytes of the word.
Begins(line, word) ==
    /\ Len(line) >= Len(word)
    /\ \A i \in 1..Len(word) : line[i] = word[i]

\* The server's lines read so far that begin with one of the words.
Received(words) ==
    {i \in DOMAIN handshake.in : \E w \in words : Begins(handshake.in[i], w)}

\* The lines _Authenticate has written, in order.
LinesWritten == SelectSeq(wire, LAMBDA c : c.part = "line")

\* C24: _Authenticate has returned nil exactly when a line beginning with OK
\* or AGREE_UNIX_FD has been read, whatever was exchanged before; BEGIN is
\* then on the socket exactly once and is the last line written, and it is
\* never written otherwise; once a line beginning with REJECTED or ERROR has
\* been read the handshake has returned an error and reads no more.
C24_SuccessIffOk ==
    /\ handshake.ret = "nil" <=> Received({OK, AGREE_UNIX_FD}) # {}
    /\ LET begins == {i \in DOMAIN LinesWritten : LinesWritten[i].text = BEGIN}
       IN IF handshake.ret = "nil"
            THEN begins = {Len(LinesWritten)}
            ELSE begins = {}
    /\ Received({REJECTED, ERROR}) # {} =>
          /\ handshake.ret \notin {"nil", "none"}
          /\ Received({REJECTED, ERROR}) = {Len(handshake.in)}
          /\ pc[Dialer] = "failed"

\* The mechanism failed on the server's challenge and CANCEL was written;
\* the server's OK then still ended the handshake with success, and the
\* Hello call has returned.
C24_Witness ==
    /\ Len(handshake.in) = 2
    /\ Begins(handshake.in[1], DATA)
    /\ Begins(handshake.in[2], OK)
    /\ handshake.err = "ProcessData error"
    /\ handshake.ret = "nil"
    /\ \E i \in DOMAIN LinesWritten : LinesWritten[i].text = CANCEL
    /\ pc[Dialer] = "idle"

\* Positions on the socket of the entries of the given kind.
WireAt(part) == {i \in DOMAIN wire : wire[i].part = part}

\* The receive task has been started.
ReceiverStarted == recvPc # "unstarted"

FieldAdmits(ruleField, unset, msgField) == ruleField = unset \/ ruleField = msgField

\* The rule matches the message: every field the rule sets is equal.
RuleMatches(r, msg) ==
    /\ FieldAdmits(r.Type, "invalid", msg.Type)
    /\ FieldAdmits(r.Sender, "", msg.Sender)
    /\ FieldAdmits(r.Path, "", msg.Path)
    /\ FieldAdmits(r.Interface, "", msg.Iface)
    /\ FieldAdmits(r.Member, "", msg.Member)

\* How many times the watch is in the result of the last FindMatches call.
TimesFound(w) == Cardinality({i \in DOMAIN found.matches : found.matches[i] = w})

\* C21: for a set built by any sequence of Add and Remove and for any
\* signal, FindMatches returns a watch exactly once when the watch is in the
\* set and its rule matches the signal, a rule's empty path, interface or
\* member matching any value, and returns no other watch.
C21_FindMatchesExact ==
    found # NotAsked =>
        \A w \in MatchWatches :
            TimesFound(w) = IF /\ w \in InSet(signalMatchRules)
                               /\ RuleMatches(Rule(w), found.msg)
                              THEN 1 ELSE 0

\* All six watches are in the set, w1 and sw in one bucket; a signal of
\* another sender is matched by the five rules that its fields satisfy and
\* not by the rule that names the peer as sender.
C21_Witness ==
    /\ InSet(signalMatchRules) = MatchWatches
    /\ Bucket(signalMatchRules, KeyOf("w1")) = <<"w1", "sw">>
    /\ found.msg.Path = "/obj" /\ found.msg.Iface = "com.example"
    /\ found.msg.Member = "Changed" /\ found.msg.Sender = ":1.7"
    /\ {found.matches[i] : i \in DOMAIN found.matches} = MatchWatches \ {"sw"}
    /\ Len(found.matches) = 5

\* C23: for every value of a supported type (every basic type code, 64-bit
\* unsigned integers included, strings, and arrays of them), decoding the
\* bytes the encoder produced with the signature it emitted, into
\* destinations of the same native types, succeeds and yields the original
\* values bit for bit.
C23_RoundTrip ==
    codec # NotRun => codec.err = "nil" /\ codec.out = codec.args

\* The patterns "P/*" of the table whose P is a proper ancestor of the path.
GlobsAbove(path) ==
    {k \in DOMAIN objectPathHandlers :
        /\ Len(k) >= 1
        /\ Len(k) <= Len(path)
        /\ k[Len(k)] = "*"
        /\ \A i \in 1..(Len(k) - 1) : k[i] = path[i]}

\* What the lookup recorded for the path found, against the table as it is.
LookedUp(path, handler) ==
    (lookup # NotLookedUp /\ lookup.path = path)
        => lookup.ok /\ lookup.handler = handler

LoopWaitsForReader ==
    /\ pc[Loop] = "deliver"
    /\ NextWatch(loopMatches) = "sw"
    /\ ~chanClosed["sw"]
    /\ InCancel(Reader)
    /\ pc[Reader] = "swr_wait"
    /\ replyChan[Reader] = <<>>
    /\ outMsg[Reader].Member = "RemoveMatch"

\* C31: SignalWatch.Cancel terminates while the connection is alive: the
\* goroutine in Cancel and the run loop never wait for each other, Cancel for
\* the reply to RemoveMatch and the run loop for a receiver on the watch's
\* unbuffered channel to which it is delivering a matching signal.
C31_CancelNotStuck == ~LoopWaitsForReader

\* g is at Cancel's watch.lock.Lock() inside the callback that
\* ensureNameWatch calls for WatchSignal, which took watch.lock itself.
LocksOwnWatch(g) ==
    /\ pc[g] = "c_lock"
    /\ InWatchSignal(g)
    /\ mutex["watch.lock"] = g

\* C32: WatchSignal returns to its caller: for a rule whose sender is a
\* unique name that has no owner when the watch is registered, the
\* goroutine in WatchSignal is never left waiting for a lock it holds itself.
C32_WatchSignalReturns == \A g \in Users : ~LocksOwnWatch(g)

\* WatchSignal has returned an error to g and g has made no call since.
WatchSignalFailed(g) ==
    /\ pc[g] = "idle"
    /\ callArg[g].watch \in NewWatches
    /\ result[g] \in {"AddMatch error", "Match rule is not for signals"}

\* C37: a failed WatchSignal leaves the connection as it was: when it has
\* returned the error, because the rule is not for signals or because AddMatch
\* failed, its watch is not in the signal-watch set and the name watch made
\* for it is not registered (the nameInfo made for it is gone with its
\* NameOwnerChanged watch).
C37_FailedWatchLeavesNothing ==
    \A g \in Users :
        WatchSignalFailed(g) =>
            /\ callArg[g].watch \notin InSet(signalMatchRules)
            /\ callArg[g].watch \notin Range(watches)
            /\ callArg[g].watch = "sw" =>
                  /\ ~swInternal
                  /\ Free("watch.lock")
                  /\ ~nameInfo
                  /\ NameInfoWatch \notin InSet(signalMatchRules)

\* AddMatch for sw failed after its name watch had been attached to a new
\* nameInfo: the name watch was removed and WatchSignal returned the error.
C37_Witness ==
    /\ WatchSignalFailed("u1")
    /\ callArg["u1"].watch = "sw"
    /\ nwRemoved["sw"] = 1
    /\ seen["sw"] # <<>>

\* C33: no value is sent on a BusName's event channel C after C has been
\* closed: under any interleaving of Release with the forwarding of a
\* NameAcquired or NameLost signal, neither forwarding goroutine reaches its
\* send on name.C with the channel closed.
C33_NoSendOnClosedC ==
    \A g \in {"ag", "lg"} : ~(pc[g] = "panicked" /\ busName.closed)

\* g takes the step of release that closes name.C.
Closing(g) == pc[g] = "rls_close" /\ ~busName.closed /\ busName'.closed

\* C34 (as stated): closing the event channel is the final step of a
\* release: when needs-release is set, the daemon's ReleaseName has been
\* called by the time name.C is closed.
C34_CloseIsFinal ==
    [][\A g \in Goroutines :
          (Closing(g) /\ frame[g].needsRelease) => CallsWrittenOf("ReleaseName") # {}]_vars

\* C34 (amended): name.C is closed after both signal watches have been
\* cancelled and before the daemon's ReleaseName is called: the step that
\* closes name.C finds the channels of both watches closed and no ReleaseName
\* call made, and it is followed by the ReleaseName call when needs-release
\* is set and by the return of nil otherwise.
C34_CloseThenReleaseName ==
    /\ [][\A g \in Goroutines :
            Closing(g) =>
                /\ \A w \in BusWatches : WatchField(w) => busWatch[w].closed
                /\ CallsWrittenOf("ReleaseName") = {}
                /\ IF frame[g].needsRelease
                     THEN pc'[g] = "swr_serial" /\ outMsg'[g] = ReleaseNameCall
                     ELSE result'[g] = "nil" /\ pc'[g] = Head(ret[g])]_vars
    /\ [](CallsWrittenOf("ReleaseName") # {} => busName.closed)

\* A release with needs-release set has cancelled both watches, closed
\* name.C and then called ReleaseName.
C34_Witness ==
    /\ busName.closed
    /\ \A w \in BusWatches : WatchField(w) /\ busWatch[w].closed
    /\ CallsWrittenOf("ReleaseName") # {}

\* A turn of the loop of _Authenticate that reads a DATA line.
AnswersData ==
    /\ pc[Dialer] = "auth_read"
    /\ Len(handshake'.in) = Len(handshake.in) + 1
    /\ HasPrefix(handshake'.in[Len(handshake'.in)], DATA)

\* What a step writes to the socket.
WrittenByStep == SubSeq(wire', Len(wire) + 1, Len(wire'))

\* C35: a DATA line of the server that the mechanism fails to process is
\* answered with exactly one CANCEL line and nothing else; one that it
\* processes is answered with exactly one DATA line.
C35_OneAnswerPerData ==
    [][AnswersData =>
         /\ Len(WrittenByStep) = 1
         /\ WrittenByStep[1].part = "line"
         /\ IF handshake'.err = "nil"
              THEN HasPrefix(WrittenByStep[1].text, DATA)
              ELSE WrittenByStep[1].text = CANCEL]_vars

\* C36: once the server has closed the connection in the middle of the
\* handshake, _Authenticate eventually returns an error.
C36_HandshakeTerminates == handshake.hungUp ~> (pc[Dialer] = "failed")

\* C40: Remove returns true exactly when the watch is in the set; it takes
\* that watch out and leaves every other watch in, those of its bucket
\* included; a Remove of the same watch after it returns false.
C40_RemoveExact ==
    [][\A w \in MatchWatches : Set_Remove(w) =>
         /\ removed'.ok <=> w \in InSet(signalMatchRules)
         /\ InSet(signalMatchRules') = InSet(signalMatchRules) \ {w}
         /\ ~SetRemoveOk(signalMatchRules', w)]_vars

\* The case of TestSignalWatchSetRemove: of two watches in one bucket the
\* first was removed, Remove returned true and the second is still there.
C40_Witness ==
    /\ removed = [watch |-> "w1", ok |-> TRUE]
    /\ Bucket(signalMatchRules, KeyOf("w1")) = <<"sw">>

\* C39: every value the encoder wrote starts at an offset of the buffer that
\* is a multiple of the alignment of its type, elements of arrays included,
\* whatever the length of the data before the array.
C39_EncodedValuesAligned ==
    \A i \in DOMAIN codec.starts :
        codec.starts[i].at % AlignmentOf(codec.starts[i].type) = 0

\* C38: readMessage returns the frame as one message and has taken exactly
\* its bytes from the stream (16 of the header, the header fields with their
\* padding to a multiple of 8, the body), in however many pieces the stream
\* handed them over.
C38_ReadsOneFrame ==
    stream.pc = "returned" =>
        /\ stream.err = "nil"
        /\ stream.taken = FrameLength(stream.frame)
        /\ (HeaderLength + stream.frame.fields + Padding(stream.frame.fields)) % 8 = 0

====
